---- MODULE Spec2Model ----
(***************************************************************************)
(* Model of the tiered web-execution layer: HttpExecutor.fetch (tier-local *)
(* retry loop) and EscalationHandler.executeWithEscalation (tier state     *)
(* machine) of src/src/part1-http-execution/index.js.                      *)
(*                                                                         *)
(* Strings are sequences of tokens; String.includes(p) is "some token is   *)
(* p" and toLowerCase maps every token to its lower-case form.  Async      *)
(* functions are split at their await points.                              *)
(***************************************************************************)
EXTENDS Integers, Sequences, FiniteSets, TLC

\* ------------------------------------------------------------------ bounds
MaxBodyTokens == 2      \* tokens in a response body
MaxRetries == 1         \* largest explicitly configured retries value

\* --------------------------------------------------------------- constants
DefaultRetries == 3
RetryDelay == 1000
EscalationDelay == 1000

Null == "null"                    \* null / undefined where a level name is expected
Undefined == <<"#undefined">>     \* null / undefined where a string (token sequence) is expected

\* ------------------------------------------------------------ JS helpers
Includes(s, p) == \E i \in 1..Len(s) : s[i] = p

IndexOf(s, x) ==
  IF \E i \in 1..Len(s) : s[i] = x
  THEN (CHOOSE i \in 1..Len(s) : s[i] = x /\ \A j \in 1..(i - 1) : s[j] # x) - 1
  ELSE -1

LowerToken(t) ==
  CASE t = "Forbidden" -> "forbidden"
    [] t = "BLOCKED" -> "blocked"
    [] t = "Challenge" -> "challenge"
    [] t = "Timeout" -> "timeout"
    [] t = "Request failed with status code" -> "request failed with status code"
    [] t = "React" -> "react"
    [] t = "__NEXT_DATA__" -> "__next_data__"
    [] t = "__NUXT__" -> "__nuxt__"
    [] t = "Cloudflare" -> "cloudflare"
    [] t = "Incapsula" -> "incapsula"
    [] t = "AkamaiGHost" -> "akamaighost"
    [] t = "UK" -> "uk"
    [] t = "en-US" -> "en-us"
    [] t = "en-GB" -> "en-gb"
    [] t = "de-DE" -> "de-de"
    [] t = "fr-FR" -> "fr-fr"
    [] t = "ja-JP" -> "ja-jp"
    [] OTHER -> t

toLowerCase(s) == [i \in 1..Len(s) |-> LowerToken(s[i])]

\* ------------------------------------------------- response bodies
BodyTokens ==
  {"Please enable JavaScript", "JavaScript is required", "challenge", "captcha",
   "<div>", "paragraph", "article"}

TokenLen(t) ==
  CASE t = "Please enable JavaScript" -> 24
    [] t = "JavaScript is required" -> 22
    [] t = "challenge" -> 9
    [] t = "captcha" -> 7
    [] t = "<div>" -> 5
    [] t = "paragraph" -> 150
    [] t = "article" -> 1500

IsTag(t) == t = "<div>"

RECURSIVE SeqsUpTo(_, _)
SeqsUpTo(S, n) ==
  IF n = 0 THEN {<<>>}
  ELSE LET shorter == SeqsUpTo(S, n - 1)
       IN shorter \cup {Append(s, t) : s \in {x \in shorter : Len(x) = n - 1}, t \in S}

Bodies == SeqsUpTo(BodyTokens, MaxBodyTokens)

JsonData == <<"{json}">>    \* response.data that is not a string

RECURSIVE Length(_)
Length(s) == IF s = <<>> THEN 0 ELSE TokenLen(Head(s)) + Length(Tail(s))

StripTags(s) == SelectSeq(s, LAMBDA t : ~IsTag(t))

RECURSIVE TrimLeft(_)
TrimLeft(s) == IF s # <<>> /\ Head(s) = " " THEN TrimLeft(Tail(s)) ELSE s

RECURSIVE TrimRight(_)
TrimRight(s) ==
  IF s # <<>> /\ s[Len(s)] = " " THEN TrimRight(SubSeq(s, 1, Len(s) - 1)) ELSE s

Trim(s) == TrimRight(TrimLeft(s))

Statuses == {200, 403, 404, 500, 503}

validateStatus(status) == status < 500

\* ------------------------------------------------- error messages
NetworkErrors ==
  { <<"Timeout">>, <<"socket hang up">>,
    <<"Access", "Forbidden">>, <<"BLOCKED", "by proxy">>,
    <<"Challenge", "page">>, <<"Proxy returned", "403">> }

StatusError(status) ==
  <<"Request failed with status code",
    CASE status = 500 -> "500" [] status = 503 -> "503" [] OTHER -> "4xx">>

AxiosErrors == NetworkErrors \cup {StatusError(s) : s \in {t \in Statuses : ~validateStatus(t)}}

\* errors thrown by caller-supplied executor functions
ExecutorErrors == { <<"Timeout">>, <<"Access", "Forbidden">>, <<"Proxy returned", "403">> }

\* ------------------------------------------------- HttpExecutor
ConfigRetries(c) == IF c = 0 THEN DefaultRetries ELSE c

checkForEscalationSignals_noScriptCheck(status, data) ==
  LET body == IF data = JsonData THEN <<>> ELSE data
  IN IF (status = 403 \/ status = 503)
        /\ (Includes(body, "challenge") \/ Includes(body, "captcha"))
     THEN [needed |-> TRUE, reason |-> <<"Challenge not resolved">>]
     ELSE IF Length(body) < 1000 /\ Length(Trim(StripTags(body))) < 100
     THEN [needed |-> TRUE, reason |-> <<"Minimal content - likely SPA">>]
     ELSE [needed |-> FALSE, reason |-> Undefined]

checkForEscalationSignals(status, data) ==
  LET body == IF data = JsonData THEN <<>> ELSE data
  IN IF Includes(body, "Please enable JavaScript") \/ Includes(body, "JavaScript is required")
     THEN [needed |-> TRUE, reason |-> <<"JavaScript", "required">>]
     ELSE IF (status = 403 \/ status = 503)
             /\ (Includes(body, "challenge") \/ Includes(body, "captcha"))
     THEN [needed |-> TRUE, reason |-> <<"Challenge not resolved">>]
     ELSE IF Length(body) < 1000 /\ Length(Trim(StripTags(body))) < 100
     THEN [needed |-> TRUE, reason |-> <<"Minimal content - likely SPA">>]
     ELSE [needed |-> FALSE, reason |-> Undefined]

shouldEscalate(error) ==
  LET message == toLowerCase(error)
  IN Includes(message, "403") \/ Includes(message, "forbidden")
     \/ Includes(message, "blocked") \/ Includes(message, "challenge")

VARIABLES
  customerId,         \* HttpExecutor config.customerId ('' when not configured)
  password            \* HttpExecutor config.password ('' when not configured)

credVars == <<customerId, password>>

Credentials == {"", "hl_1a2b3c"}
Passwords == {"", "s3cret"}

\* variant of isProxyConfigured that looks at the customer id only
isProxyConfigured_customerOnly == customerId # ""

isProxyConfigured == customerId # "" /\ password # ""

buildAxiosConfig ==
  IF isProxyConfigured
  THEN [method |-> "GET",
        proxy |-> [username |-> <<"brd-customer-", customerId, "-zone-", "web_unlocker">>,
                   password |-> password]]
  ELSE [method |-> "GET"]

executeRequestResult(status, data, rc) ==
  LET escalationCheck == checkForEscalationSignals(status, data)
  IN [success |-> TRUE, statusCode |-> status, retryCount |-> rc,
      proxyUsed |-> isProxyConfigured,
      escalationNeeded |-> escalationCheck.needed,
      escalationReason |-> escalationCheck.reason]

buildEscalationResult(rc, error) ==
  [success |-> FALSE, statusCode |-> 0, retryCount |-> rc,
   escalationNeeded |-> TRUE,
   escalationReason |-> <<"Web Unlocker could not handle - ">> \o error,
   error |-> error]

buildFailureResult(rc, error) ==
  [success |-> FALSE, statusCode |-> 0, retryCount |-> rc,
   escalationNeeded |-> FALSE, error |-> error]

\* ------------------------------------------------- other executors
FunctionResults ==
  {[success |-> s, escalationNeeded |-> n,
    escalationReason |-> IF n THEN <<"tier insufficient">> ELSE Undefined] :
      s \in BOOLEAN, n \in BOOLEAN}

BrowserResults ==
  {[success |-> TRUE, statusCode |-> 200, javascriptRendered |-> TRUE],
   [success |-> FALSE, statusCode |-> 0, javascriptRendered |-> FALSE,
    error |-> <<"Navigation failed - no response">>]}

\* ------------------------------------------------- EscalationHandler
Levels == <<"http", "browser-light", "browser-advanced">>

getNextLevel_wraparound(current) ==
  LET idx == IndexOf(Levels, current)
  IN Levels[((idx + 1) % Len(Levels)) + 1]

getNextLevel_first(current) ==
  LET idx == IndexOf(Levels, current)
  IN IF idx < Len(Levels) - 1 THEN Levels[1] ELSE Null

getNextLevel(current) ==
  LET idx == IndexOf(Levels, current)
  IN IF idx < Len(Levels) - 1 THEN Levels[idx + 2] ELSE Null

LevelKeys == {"http", "browser-light", "browser-advanced", "mcp"}

ExecutorKinds(k) ==
  CASE k = "http" -> {"absent", "function", "fetch"}
    [] k = "mcp" -> {"absent", "function"}
    [] OTHER -> {"absent", "function", "execute"}

ExecutorMaps == {m \in [LevelKeys -> {"absent", "function", "fetch", "execute"}] :
                   \A k \in LevelKeys : m[k] \in ExecutorKinds(k)}

Urls == {"https://a.example"}

Truthy(r, f) == f \in DOMAIN r /\ r[f] = TRUE

Get(r, f) == IF f \in DOMAIN r THEN r[f] ELSE Undefined

FinalResult(r, level, count) ==
  [f \in DOMAIN r \cup {"executionLevel", "escalationCount"} |->
     IF f = "executionLevel" THEN level
     ELSE IF f = "escalationCount" THEN count
     ELSE r[f]]

VARIABLES
  autoEscalate,       \* EscalationHandler config.autoEscalate
  retries,            \* HttpExecutor config.retries
  escalationHistory,  \* EscalationHandler.escalationHistory
  now,                \* wall clock in ms
  hPc,                \* executeWithEscalation: "idle" | "exec" | "delay" | "done"
  url,                \* executeWithEscalation: url argument
  startLevel,         \* executeWithEscalation: options.startLevel || 'http'
  executors,          \* executeWithEscalation: executors argument (kind per key)
  currentLevel,       \* executeWithEscalation: local currentLevel
  escalationCount,    \* executeWithEscalation: local escalationCount
  outcome,            \* how the executeWithEscalation promise settled
  emitted,            \* events emitted by the handler during the run
  trace,              \* executor invocations of the run and how each settled
  fPc,                \* fetch: "idle" | "request" | "delay" | "done"
  fCaller,            \* fetch: "handler" | "user"
  attempt,            \* fetch: loop variable attempt
  retryCount,         \* fetch: local retryCount
  lastError,          \* fetch: local lastError
  fResult,            \* fetch: resolved value
  requests,           \* fetch: number of requests issued so far
  response,           \* fetch: the response axios resolved with, if any
  delays,             \* fetch: delays awaited so far, in order
  axiosConfig         \* fetch: the config of the request issued last

handlerVars == <<hPc, url, startLevel, executors, currentLevel, escalationCount,
                 outcome, emitted, trace>>
fetchVars == <<fPc, fCaller, attempt, retryCount, lastError, fResult, requests, response,
              delays, axiosConfig>>
VARIABLES
  throttleMinutes,    \* AlertingSystem config.throttleMinutes
  rules,              \* AlertingSystem config.rules
  failing,            \* channels whose sender throws
  alertHistory,       \* AlertingSystem.alertHistory
  lastAlerts,         \* AlertingSystem.lastAlerts (rule name -> time of last alert)
  alertCounter,       \* AlertingSystem.alertCounter
  calls,              \* invocations of processEvent / sendAlert and where each stands
  alertEvents,        \* the 'alert' and 'delivery-error' events emitted so far (a set)
  deliveries,         \* <<alert id, channel>> for every sender invoked so far
  evals,              \* the rule evaluations whose condition matched (a set)
  ticks               \* number of clock advances so far

alertVars == <<throttleMinutes, rules, failing, alertHistory, lastAlerts, alertCounter,
               calls, alertEvents, deliveries, evals, ticks>>

VARIABLES
  targets,            \* EnvironmentMonitor config.targets
  checkHistory,       \* EnvironmentMonitor.checkHistory (url -> checks)
  baselines,          \* EnvironmentMonitor.baselines (url -> check)
  monitorEvents,      \* 'environment-change' and 'health-check' events emitted so far
  cycle,              \* runChecks: "idle" | "checking" and the index of the target
  detections,         \* the calls of detectChanges so far: inputs, baselines, result
  checks              \* number of target checks started so far

VARIABLES
  isRunning,          \* EnvironmentMonitor.isRunning
  checkInterval,      \* EnvironmentMonitor config.checkInterval
  intervalId,         \* EnvironmentMonitor.intervalId: NoInterval or the timer of start()
                      \* with the time its callback is due next
  cycles              \* the runChecks() calls nobody awaits that are under way,
                      \* in the order they began: target index and start of its check

scheduleVars == <<isRunning, checkInterval, intervalId, cycles>>

monitorVars == <<targets, checkHistory, baselines, monitorEvents, cycle, detections,
                 checks, scheduleVars>>

VARIABLES
  aPc,                \* EnvironmentAnalyzer.analyze: "idle" | "probing" | "done"
  probe,              \* what axios.get gave to analyze: the response or the error
  analysis            \* the value analyze resolved with

analyzerVars == <<aPc, probe, analysis>>

VARIABLES
  runs                \* executeWithEscalation calls under way on one handler at the
                      \* same time: the locals and the invocations of each

runVars == <<runs>>

VARIABLES
  pPc,                \* fetchMany / executeMany: "idle" | "running" | "returned"
  pCall,              \* its arguments: urls and concurrency
  pQueue,             \* its local queue
  pResults,           \* its local results
  pWorkers,           \* its workers: each awaits the fetch of a url, or has ended
  pTaken              \* the queue entries shifted so far: worker and position in urls

poolVars == <<pPc, pCall, pQueue, pResults, pWorkers, pTaken>>

VARIABLES
  antiBotRetries,     \* BrowserExecutor config.antiBotRetries
  browser,            \* BrowserExecutor.browser: NoBrowser or the connection it holds
  connections,        \* every connection puppeteer.connect resolved with: the endpoint
                      \* it was asked for and whether it is still open
  antiBotEvents,      \* BrowserExecutor.antiBotEvents
  execs               \* the execute calls made on the executor: locals and result

browserVars == <<antiBotRetries, browser, connections, antiBotEvents, execs>>

VARIABLES
  clients,            \* per MCPClient instance: callHistory and totalCost
  toolCalls           \* the webSearch / webScrape / webNavigate calls made so far

mcpVars == <<clients, toolCalls>>

VARIABLES
  validation          \* the GeoValidator.validate call made last: arguments and result

geoVars == <<validation>>

restVars == <<credVars, alertVars, monitorVars, analyzerVars, runVars, poolVars,
              browserVars, mcpVars, geoVars>>
vars == <<autoEscalate, retries, escalationHistory, now, handlerVars, fetchVars, restVars>>

\* ------------------------------------------------- EnvironmentAnalyzer
\* confidence is counted in hundredths: 0.2 is 20, 1 is 100
MaxHtmlTokens == 3

jsFrameworkPatterns ==
  <<"react", "vue", "angular", "svelte", "next.js", "nuxt", "__NEXT_DATA__", "__NUXT__",
    "ng-app", "data-reactroot">>

antiBotPatterns ==
  <<"cloudflare", "incapsula", "perimeterx", "datadome", "kasada", "akamai",
    "cf-browser-verification", "challenge-platform", "_cf_chl">>

dynamicContentPatterns ==
  <<"infinite-scroll", "load-more", "lazy-load", "data-src", "data-lazy",
    "intersection-observer">>

\* the pieces the probed documents are made of: markers inside tags, and text
HtmlTokens ==
  {"React", "__NEXT_DATA__", "Cloudflare", "kasada", "lazy-load", "paragraph",
   "article"}

\* characters of a piece, and characters left of it once the tags are stripped
HtmlLength(t) ==
  CASE t = "paragraph" -> 600
    [] t = "article" -> 6000
    [] OTHER -> 40

TextLength(t) ==
  CASE t = "paragraph" -> 550
    [] t = "article" -> 5800
    [] OTHER -> 0

RECURSIVE HtmlLen(_)
\* html.length
HtmlLen(s) == IF s = <<>> THEN 0 ELSE HtmlLength(Head(s)) + HtmlLen(Tail(s))

RECURSIVE TextLen(_)
\* html.replace(/<[^>]*>/g, '').trim().length
TextLen(s) == IF s = <<>> THEN 0 ELSE TextLength(Head(s)) + TextLen(Tail(s))

Htmls == SeqsUpTo(HtmlTokens, MaxHtmlTokens)

\* response.data: a string, or the object axios parsed the body text into
ProbeData ==
  {[isString |-> TRUE, text |-> h] : h \in Htmls}
  \cup {[isString |-> FALSE, text |-> h] : h \in Htmls}

\* response.headers
ProbeHeaders ==
  { <<>>,
    << [name |-> "cf-ray", value |-> "8a1b2c3d"] >>,
    << [name |-> "cf-cache-status", value |-> "HIT"] >>,
    << [name |-> "x-cdn", value |-> "Incapsula"] >>,
    << [name |-> "cf-ray", value |-> "8a1b2c3d"], [name |-> "x-cdn", value |-> "Incapsula"] >>,
    << [name |-> "server", value |-> "AkamaiGHost"] >> }

\* headers[name] is truthy
HasHeader(headers, name) ==
  \E i \in 1..Len(headers) : headers[i].name = name /\ headers[i].value # ""

\* JSON.stringify(headers).toLowerCase()
headerString(headers) ==
  toLowerCase([i \in 1..(2 * Len(headers)) |->
                 IF i % 2 = 1 THEN headers[(i + 1) \div 2].name
                 ELSE headers[i \div 2].value])

\* lowerHtml.includes(pattern.toLowerCase()) for some pattern of the list
PatternHit(lowerHtml, patterns) ==
  \E i \in 1..Len(patterns) : Includes(lowerHtml, LowerToken(patterns[i]))

CloudflareHeaderHit(headers) ==
  HasHeader(headers, "cf-ray") \/ HasHeader(headers, "cf-cache-status")

ServiceHeaderHit(headers) ==
  \/ Includes(headerString(headers), "incapsula")
  \/ Includes(headerString(headers), "perimeterx")
  \/ Includes(headerString(headers), "datadome")

MinimalContentHit(html) ==
  /\ HtmlLen(html) < 5000
  /\ TextLen(html) < 500

NewSignals ==
  [requiresJavaScript |-> FALSE, hasAntiBot |-> FALSE, hasDynamicContent |-> FALSE,
   confidence |-> 0]

\* one heuristic: when it hits, the flag is set and the increment is added
Hit(signals, hit, flag, increment) ==
  IF hit
  THEN [signals EXCEPT ![flag] = TRUE, !.confidence = @ + increment]
  ELSE signals

\* the signals after analyzeHeaders(headers, signals)
analyzeHeaders(headers, signals) ==
  Hit(Hit(signals, CloudflareHeaderHit(headers), "hasAntiBot", 20),
      ServiceHeaderHit(headers), "hasAntiBot", 30)

\* variant of analyzeContent that compares the patterns with the text as it
\* came, without lower-casing it
analyzeContent_caseSensitive(html, signals) ==
  LET s1 == Hit(signals, PatternHit(html, jsFrameworkPatterns), "requiresJavaScript", 15)
      s2 == Hit(s1, PatternHit(html, antiBotPatterns), "hasAntiBot", 20)
      s3 == Hit(s2, PatternHit(html, dynamicContentPatterns), "hasDynamicContent", 10)
  IN Hit(s3, MinimalContentHit(html), "requiresJavaScript", 30)

\* the signals after analyzeContent(html, signals)
analyzeContent(html, signals) ==
  LET lowerHtml == toLowerCase(html)
      s1 == Hit(signals, PatternHit(lowerHtml, jsFrameworkPatterns),
                "requiresJavaScript", 15)
      s2 == Hit(s1, PatternHit(lowerHtml, antiBotPatterns), "hasAntiBot", 20)
      s3 == Hit(s2, PatternHit(lowerHtml, dynamicContentPatterns),
                "hasDynamicContent", 10)
  IN Hit(s3, MinimalContentHit(html), "requiresJavaScript", 30)

calculateComplexity(signals) ==
  IF signals.hasAntiBot THEN "high"
  ELSE IF signals.requiresJavaScript \/ signals.hasDynamicContent THEN "medium"
  ELSE "low"

\* variant of getRecommendedExecution that sends a medium complexity to the
\* advanced browser as well
getRecommendedExecution_mediumAdvanced(complexity, signals) ==
  IF complexity = "high" \/ complexity = "medium" THEN "browser-advanced" ELSE "http"

getRecommendedExecution(complexity, signals) ==
  IF complexity = "high" THEN "browser-advanced"
  ELSE IF complexity = "medium"
       THEN (IF signals.hasAntiBot THEN "browser-advanced" ELSE "browser-light")
  ELSE "http"

generateDetails(signals) ==
  LET details ==
        (IF signals.requiresJavaScript THEN <<"JavaScript rendering required">> ELSE <<>>)
        \o (IF signals.hasAntiBot THEN <<"Anti-bot protection detected">> ELSE <<>>)
        \o (IF signals.hasDynamicContent
            THEN <<"Dynamic content loading detected">> ELSE <<>>)
  IN IF Len(details) = 0 THEN <<"Simple static page detected">> ELSE details

\* Math.min(signals.confidence, 1)
Clamp(confidence) == IF confidence < 100 THEN confidence ELSE 100

\* variant of analyzed that reports the confidence as it was accumulated
analyzed_unclamped(href, res) ==
  LET s1 == analyzeHeaders(res.headers, NewSignals)
      signals == IF res.data.isString
                 THEN analyzeContent(res.data.text, s1) ELSE s1
      complexity == calculateComplexity(signals)
  IN [url |-> href, signals |-> signals, complexity |-> complexity,
      recommendedExecution |-> getRecommendedExecution(complexity, signals),
      confidence |-> signals.confidence, details |-> generateDetails(signals)]

\* what analyze(href) returns once the probe has given the response res
analyzed(href, res) ==
  LET s1 == analyzeHeaders(res.headers, NewSignals)
      signals == IF res.data.isString
                 THEN analyzeContent(res.data.text, s1) ELSE s1
      complexity == calculateComplexity(signals)
  IN [url |-> href, signals |-> signals, complexity |-> complexity,
      recommendedExecution |-> getRecommendedExecution(complexity, signals),
      confidence |-> Clamp(signals.confidence), details |-> generateDetails(signals)]

\* variant of analysisFailed that falls back to plain HTTP
analysisFailed_http(href, signals, message) ==
  [url |-> href, signals |-> signals, complexity |-> "low",
   recommendedExecution |-> "http", confidence |-> 30, error |-> message,
   details |-> <<"Analysis failed - recommending browser execution for safety">>]

\* what analyze(href) returns from its catch block
analysisFailed(href, signals, message) ==
  [url |-> href, signals |-> signals, complexity |-> "high",
   recommendedExecution |-> "browser-advanced", confidence |-> 30, error |-> message,
   details |-> <<"Analysis failed - recommending browser execution for safety">>]

\* ------------------------------------------------- concurrent runs, pools
MaxRuns == 2

\* an executeWithEscalation call that has not been made
NoRun == [pc |-> "unused"]

MaxUrls == 3

\* no fetchMany / executeMany call has been made
PoolIdle ==
  /\ pPc = "idle"
  /\ pCall = [urls |-> <<>>, concurrency |-> 0]
  /\ pQueue = <<>>
  /\ pResults = <<>>
  /\ pWorkers = <<>>
  /\ pTaken = <<>>

AnalyzerConstructed ==
  /\ aPc = "idle"
  /\ probe = [type |-> "none"]
  /\ analysis = [url |-> Null]

\* ------------------------------------------------- BrowserExecutor
MaxExecs == 2             \* execute calls made on one executor
MaxAntiBotRetries == 2    \* largest explicitly configured antiBotRetries value

DefaultAntiBotRetries == 3

ConfigAntiBotRetries(c) == IF c = 0 THEN DefaultAntiBotRetries ELSE c

Zone == "scraping_browser"

\* options.geo of an execute call; Null when the caller gives none
Geos == {Null, "us", "uk"}

NoBrowser == 0

\* page.goto and page.reload resolve with null or with a response of some status
NoResponse == 0

NavigationStatuses == {200, 404}

PageContents == { <<"<html>", "<body>">>, <<"<html>", "captcha">> }

NavigationErrors == { <<"Navigation timeout of 60000 ms exceeded">> }

ConnectErrors == { <<"connect ECONNREFUSED">> }

PageErrors == { <<"Execution context was destroyed">> }

NoResponseError == <<"Navigation failed - no response">>

NotResolvedError(type) == <<"Anti-bot challenge not resolved: ", type>>

\* this.antiBotEvents[-1].resolved = ... on an empty list
ResolvedOfUndefined == <<"Cannot set properties of undefined (setting 'resolved')">>

buildBrightDataEndpoint(geo) ==
  <<"wss://", "brd-customer-", customerId, "-zone-", Zone>>
    \o (IF geo # Null THEN <<"-country-", geo>> ELSE <<>>)
    \o <<":", password, "@brd.superproxy.io:9222">>

detectChallenge(content, pageUrl) ==
  IF \/ Includes(content, "cf-browser-verification")
     \/ Includes(content, "challenge-running")
     \/ Includes(pageUrl, "cf_chl")
  THEN "challenge"
  ELSE IF \/ Includes(content, "captcha")
          \/ Includes(content, "recaptcha")
          \/ Includes(content, "hcaptcha")
  THEN "captcha"
  ELSE IF \/ Includes(content, "browser check")
          \/ Includes(content, "validating your browser")
  THEN "fingerprint"
  ELSE IF \/ Includes(content, "rate limit")
          \/ Includes(content, "too many requests")
  THEN "rate-limit"
  ELSE Null

NoExec == [pc |-> "unused"]

\* what an attempt obtained from page.goto or page.reload
Obtained(res) == [outcome |-> "response", status |-> res]

\* the locals of an execute call at its first await; conn is the connection
\* its page belongs to, met and got record what its navigation came across
NewExec(href, geo) ==
  [pc |-> IF browser = NoBrowser THEN "connecting" ELSE "goto",
   url |-> href, geo |-> geo, attempt |-> 0, response |-> NoResponse,
   lastError |-> Undefined, challenge |-> Null, conn |-> browser,
   met |-> <<>>, got |-> {}, result |-> [success |-> FALSE]]

\* the result of the try block of execute
Succeeded(ex, events) ==
  [ex EXCEPT !.pc = "done",
             !.result = [success |-> TRUE, url |-> ex.url, statusCode |-> ex.response,
                         javascriptRendered |-> TRUE, antiBotEvents |-> events,
                         geo |-> ex.geo]]

\* the catch block of execute: the failure result
Failed(ex, error, events) ==
  [ex EXCEPT !.pc = "done",
             !.result = [success |-> FALSE, url |-> ex.url, statusCode |-> 0,
                         javascriptRendered |-> FALSE, antiBotEvents |-> events,
                         error |-> error]]

\* navigateWithRetry returned the response: execute goes on to page.content()
Navigated(ex) == [ex EXCEPT !.pc = "content"]

\* navigateWithRetry after its for loop, and execute's check of what it returned
LoopEnd(ex, events) ==
  IF ex.lastError # Undefined THEN Failed(ex, ex.lastError, events)
  ELSE IF ex.response = NoResponse THEN Failed(ex, NoResponseError, events)
  ELSE Navigated(ex)

\* attempt++ and the loop test; the next page.goto is awaited
NextAttempt(ex, events) ==
  IF ex.attempt + 1 < antiBotRetries
  THEN [ex EXCEPT !.attempt = ex.attempt + 1, !.pc = "goto"]
  ELSE LoopEnd([ex EXCEPT !.attempt = ex.attempt + 1], events)

\* the end of the try block of an attempt: return the response or go round
AfterAttempt(ex, events) ==
  IF ex.response # NoResponse /\ ex.response < 400
  THEN Navigated(ex)
  ELSE NextAttempt(ex, events)

\* the catch block of an attempt
Caught(ex, error, events) ==
  LET failed == [ex EXCEPT !.lastError = error, !.got = ex.got \cup {[outcome |-> "error"]}]
  IN IF ex.attempt < antiBotRetries - 1
     THEN [failed EXCEPT !.pc = "delay"]
     ELSE NextAttempt(failed, events)

BrowserConstructed(cfgAntiBotRetries) ==
  /\ antiBotRetries = ConfigAntiBotRetries(cfgAntiBotRetries)
  /\ browser = NoBrowser
  /\ connections = <<>>
  /\ antiBotEvents = <<>>
  /\ execs = [e \in 1..MaxExecs |-> NoExec]

\* ------------------------------------------------- MCPClient
MaxToolCalls == 3         \* tool calls made on the clients

\* two clients; the second is constructed with autoEscalate: false
Clients == {1, 2}

\* costs are counted in thousandths of a dollar
calculateSearchCost(resultCount) == 5 * ((resultCount + 9) \div 10)

baseCosts(level) ==
  CASE level = "http" -> 1
    [] level = "browser-light" -> 10
    [] level = "browser-advanced" -> 25

calculateScrapeCost(level, geo) ==
  baseCosts(level) + (IF geo # Null /\ geo # "us" THEN 2 ELSE 0)

calculateNavigationCost(stepCount, geo) ==
  25 + 5 * stepCount + (IF geo # Null /\ geo # "us" THEN 5 ELSE 0)

determineExecutionLevel(href) ==
  LET urlLower == toLowerCase(href)
  IN IF \E p \in {"squarespace", "wix", "shopify"} : Includes(urlLower, p)
     THEN "browser-advanced"
     ELSE IF \E p \in {"magento", "adobe", "salesforce"} : Includes(urlLower, p)
     THEN "browser-light"
     ELSE "http"

\* the tool calls made: options is [missing |-> TRUE] when the caller passes
\* none, and a field is Null (Undefined for url and steps) when the options
\* lack it
ToolInputs ==
  { [tool |-> "web_search", options |-> [missing |-> TRUE]],
    [tool |-> "web_search", options |-> [limit |-> 25]],
    [tool |-> "web_scrape",
     options |-> [url |-> <<"https://www.", "wix", ".com">>, geo |-> "uk",
                  forceLevel |-> Null]],
    [tool |-> "web_scrape",
     options |-> [url |-> Undefined, geo |-> "us", forceLevel |-> Null]],
    [tool |-> "web_navigate",
     options |-> [steps |-> <<"click", "extract">>, geo |-> "de"]],
    [tool |-> "web_navigate", options |-> [steps |-> Undefined, geo |-> Null]] }

\* webScrape: forceLevel, or the level of the url, or 'http'
ScrapeLevel(client, options) ==
  IF options.forceLevel # Null THEN options.forceLevel
  ELSE IF clients[client].autoEscalate THEN determineExecutionLevel(options.url)
  ELSE "http"

\* the call throws before its first timer: url.toLowerCase() of undefined in
\* determineExecutionLevel, options.steps.length of undefined in executeNavigation
ThrowsAtOnce(client, input) ==
  \/ /\ input.tool = "web_scrape"
     /\ input.options.forceLevel = Null
     /\ clients[client].autoEscalate
     /\ input.options.url = Undefined
  \/ /\ input.tool = "web_navigate"
     /\ input.options.steps = Undefined

\* the call throws after its timer: options.limit of null in executeSearch
ThrowsLater(input) == input.tool = "web_search" /\ "missing" \in DOMAIN input.options

\* the cost the tool method computes after its execution resolved
CostOf(call) ==
  CASE call.tool = "web_search" ->
         calculateSearchCost(IF call.options.limit = 0 THEN 10 ELSE call.options.limit)
    [] call.tool = "web_scrape" -> calculateScrapeCost(call.level, call.options.geo)
    [] call.tool = "web_navigate" ->
         calculateNavigationCost(Len(call.options.steps), call.options.geo)

\* variant of recordCall that keeps the entry and forgets its cost
recordCall_forgetCost(client, call) ==
  [client EXCEPT !.callHistory = Append(client.callHistory, call)]

recordCall(client, call) ==
  [client EXCEPT !.callHistory = Append(client.callHistory, call),
                 !.totalCost = client.totalCost + call.cost]

reset(client) == [client EXCEPT !.callHistory = <<>>, !.totalCost = 0]

NoToolCall == [pc |-> "unused"]

McpConstructed ==
  /\ clients = [c \in Clients |->
                  [autoEscalate |-> c = 1, callHistory |-> <<>>, totalCost |-> 0]]
  /\ toolCalls = [t \in 1..MaxToolCalls |-> NoToolCall]

\* ------------------------------------------------- GeoValidator
MaxGeoTokens == 2         \* tokens in result.html

\* characters outside ASCII are written by name, in parentheses

currencyPatterns ==
  << [geo |-> "us", symbols |-> <<"$", "US$">>],
     [geo |-> "uk", symbols |-> <<"(pound sign)">>],
     [geo |-> "de", symbols |-> <<"(euro sign)">>],
     [geo |-> "fr", symbols |-> <<"(euro sign)">>],
     [geo |-> "jp", symbols |-> <<"(yen sign)", "(yen kanji)">>] >>

languageIndicators ==
  << [geo |-> "us", indicators |-> <<"en-US", "english">>],
     [geo |-> "uk", indicators |-> <<"en-GB", "english">>],
     [geo |-> "de", indicators |-> <<"de-DE", "deutsch">>],
     [geo |-> "fr", indicators |-> <<"fr-FR", "fran(c cedilla)ais">>],
     [geo |-> "jp", indicators |-> <<"ja-JP", "(nihongo)">>] >>

tldMap ==
  << <<".co.uk", "uk">>, <<".de", "de">>, <<".fr", "fr">>, <<".jp", "jp">>,
     <<".ca", "ca">>, <<".com.au", "au">> >>

\* result.finalUrl: scheme, host labels, top-level domain, path
FinalUrls ==
  { <<"https://", "shop.example", ".co.uk", "/pricing">>,
    <<"https://", "shop.example", ".de", "/pricing">>,
    <<"https://", "shop.example", ".com", "/pricing">>,
    <<"shop.example/pricing">> }

GeoHtmlTokens ==
  {"$", "US$", "(pound sign)", "(euro sign)", "<html lang=\"en-GB\">", "<html lang=\"de-DE\">", "<p>"}

GeoHtmls == SeqsUpTo(GeoHtmlTokens, MaxGeoTokens)

ExpectedGeos == {"us", "uk", "UK", "de", "fr"}

\* new URL(url).hostname; Undefined when new URL throws
Hostname(href) ==
  IF Len(href) >= 3 /\ href[1] = "https://" THEN SubSeq(href, 2, 3) ELSE Undefined

\* null where a detector returns no indicator
NoIndicator == [type |-> "none"]

RECURSIVE FirstTld(_, _)
FirstTld(domain, i) ==
  IF i > Len(tldMap) THEN NoIndicator
  ELSE IF domain[Len(domain)] = tldMap[i][1]
  THEN [type |-> "domain", value |-> tldMap[i][1], suggestedGeo |-> tldMap[i][2],
        confidence |-> 90]
  ELSE FirstTld(domain, i + 1)

detectGeoFromDomain(href) ==
  IF Hostname(href) = Undefined THEN NoIndicator ELSE FirstTld(Hostname(href), 1)

\* String.includes on a token: "US$" contains "$"
Contains(token, pattern) == token = pattern \/ (token = "US$" /\ pattern = "$")

HtmlIncludes(html, pattern) == \E i \in 1..Len(html) : Contains(html[i], pattern)

RECURSIVE SymbolIndicators(_, _, _, _)
SymbolIndicators(html, geo, symbols, i) ==
  IF i > Len(symbols) THEN <<>>
  ELSE (IF HtmlIncludes(html, symbols[i])
        THEN << [type |-> "currency", value |-> symbols[i], suggestedGeo |-> geo,
                 confidence |-> 70] >>
        ELSE <<>>)
       \o SymbolIndicators(html, geo, symbols, i + 1)

RECURSIVE CurrencyIndicators(_, _)
CurrencyIndicators(html, g) ==
  IF g > Len(currencyPatterns) THEN <<>>
  ELSE SymbolIndicators(html, currencyPatterns[g].geo, currencyPatterns[g].symbols, 1)
       \o CurrencyIndicators(html, g + 1)

detectGeoFromCurrency(html) == CurrencyIndicators(html, 1)

\* the lang attribute of the first <html ...> tag, Null when the regex finds none
LangAttribute(token) ==
  CASE token = "<html lang=\"en-GB\">" -> "en-GB"
    [] token = "<html lang=\"de-DE\">" -> "de-DE"
    [] OTHER -> Null

RECURSIVE langMatch(_)
langMatch(html) ==
  IF html = <<>> THEN Null
  ELSE IF LangAttribute(Head(html)) # Null THEN LangAttribute(Head(html))
  ELSE langMatch(Tail(html))

RECURSIVE FirstLanguage(_, _)
FirstLanguage(lang, g) ==
  IF g > Len(languageIndicators) THEN NoIndicator
  ELSE IF \E k \in 1..Len(languageIndicators[g].indicators) :
            lang = LowerToken(languageIndicators[g].indicators[k])
  THEN [type |-> "language", value |-> lang,
        suggestedGeo |-> languageIndicators[g].geo, confidence |-> 85]
  ELSE FirstLanguage(lang, g + 1)

detectGeoFromLanguage(html) ==
  IF langMatch(html) = Null THEN NoIndicator
  ELSE FirstLanguage(LowerToken(langMatch(html)), 1)

RECURSIVE ScoreOf(_, _)
ScoreOf(indicators, geo) ==
  IF indicators = <<>> THEN 0
  ELSE (IF Head(indicators).suggestedGeo = geo THEN Head(indicators).confidence ELSE 0)
       + ScoreOf(Tail(indicators), geo)

\* the keys of the scores Map in insertion order
RECURSIVE ScoredGeos(_, _)
ScoredGeos(indicators, seen) ==
  IF indicators = <<>> THEN seen
  ELSE ScoredGeos(Tail(indicators),
                  IF Includes(seen, Head(indicators).suggestedGeo) THEN seen
                  ELSE Append(seen, Head(indicators).suggestedGeo))

RECURSIVE MaxGeo(_, _, _, _, _)
MaxGeo(indicators, geos, i, maxScore, maxGeo) ==
  IF i > Len(geos) THEN maxGeo
  ELSE IF ScoreOf(indicators, geos[i]) > maxScore
  THEN MaxGeo(indicators, geos, i + 1, ScoreOf(indicators, geos[i]), geos[i])
  ELSE MaxGeo(indicators, geos, i + 1, maxScore, maxGeo)

determineGeo(indicators) ==
  IF Len(indicators) = 0 THEN Null
  ELSE MaxGeo(indicators, ScoredGeos(indicators, <<>>), 1, 0, Null)

\* confidence in thousandths: the average of the matching indicators plus
\* (matching.length / 3) * 0.2, at most 1
calculateConfidence(indicators, expectedGeo) ==
  LET matching == SelectSeq(indicators,
                            LAMBDA i : i.suggestedGeo = LowerToken(expectedGeo))
      n == Len(matching)
      total == ScoreOf(matching, LowerToken(expectedGeo))
  IN IF n = 0 THEN 0
     ELSE IF (total * 10) \div n + (n * 200) \div 3 < 1000
     THEN (total * 10) \div n + (n * 200) \div 3
     ELSE 1000

GeoIndicators(result) ==
  (IF detectGeoFromDomain(result.finalUrl) # NoIndicator
   THEN <<detectGeoFromDomain(result.finalUrl)>> ELSE <<>>)
  \o detectGeoFromCurrency(result.html)
  \o (IF detectGeoFromLanguage(result.html) # NoIndicator
      THEN <<detectGeoFromLanguage(result.html)>> ELSE <<>>)

validate(result, expectedGeo) ==
  LET indicators == GeoIndicators(result)
      detectedGeo == determineGeo(indicators)
      confidence == calculateConfidence(indicators, expectedGeo)
      valid == \/ detectedGeo = Null
               \/ detectedGeo = LowerToken(expectedGeo)
               \/ confidence < 500
  IN [valid |-> valid, expectedGeo |-> expectedGeo, detectedGeo |-> detectedGeo,
      confidence |-> confidence, indicators |-> indicators,
      warnings |-> IF ~valid
                   THEN << <<"Expected ", expectedGeo, " but detected ", detectedGeo>> >>
                   ELSE <<>>]

NoValidation == [called |-> FALSE]

\* ------------------------------------------------- AlertingSystem
MaxCalls == 3
MaxPiped == 2
MaxTicks == 2

DefaultThrottleMinutes == 5

ConfigThrottle(c) == IF c = 0 THEN DefaultThrottleMinutes ELSE c

\* clock advances: 1 ms, 5 min - 1 ms
TickSteps == {1, 299999}

Never == -1

Channels == {"console", "slack", "email", "webhook"}

defaultAlertRules ==
  << [name |-> "Critical Health", severity |-> "critical",
      channels |-> <<"console", "slack">>],
     [name |-> "Structure Change", severity |-> "warning",
      channels |-> <<"console", "slack">>],
     [name |-> "Performance Degradation", severity |-> "warning",
      channels |-> <<"console">>, throttle |-> 30],
     [name |-> "Geo Mismatch", severity |-> "warning",
      channels |-> <<"console">>] >>

\* a rule set of the caller: one rule over three channels
callerRules ==
  << [name |-> "Any Change", severity |-> "info",
      channels |-> <<"slack", "console", "email">>] >>

\* rule.condition(event)
condition(rule, event) ==
  CASE rule.name = "Critical Health" ->
         event.type = "health-check" /\ event.data.status = "critical"
    [] rule.name = "Structure Change" ->
         event.type = "environment-change" /\ event.data.changeType = "structure"
    [] rule.name = "Performance Degradation" ->
         IF event.type # "health-check" THEN FALSE
         ELSE event.data.responseTime > 10000
    [] rule.name = "Geo Mismatch" ->
         IF event.type # "health-check" THEN FALSE
         ELSE /\ "geoResults" \in DOMAIN event.data
              /\ \E g \in DOMAIN event.data.geoResults :
                   event.data.geoResults[g] = "mismatch"
    [] rule.name = "Any Change" -> event.type = "environment-change"
    [] OTHER -> FALSE

\* the events handed to processEvent, without their identity
EventKinds ==
  { [type |-> "health-check",
     data |-> [status |-> "critical", responseTime |-> 12000]],
    [type |-> "environment-change", data |-> [changeType |-> "structure"]] }

\* channel lists passed to sendAlert
SendAlertChannels == { <<"webhook", "console">> }

\* variant of isThrottled that also throttles at exactly the window's end
isThrottled_inclusive(rule, last) ==
  IF rule.name \notin DOMAIN last THEN FALSE
  ELSE LET minutes == IF "throttle" \in DOMAIN rule /\ rule.throttle # 0
                      THEN rule.throttle ELSE throttleMinutes
           throttleMs == minutes * 60 * 1000
       IN now - last[rule.name] <= throttleMs

\* variant of isThrottled that never throttles
isThrottled_never(rule, last) == FALSE

\* isThrottled(rule) read against the map `last` of last alerts
isThrottled(rule, last) ==
  IF rule.name \notin DOMAIN last THEN FALSE
  ELSE LET minutes == IF "throttle" \in DOMAIN rule /\ rule.throttle # 0
                      THEN rule.throttle ELSE throttleMinutes
           throttleMs == minutes * 60 * 1000
       IN now - last[rule.name] < throttleMs

NoResults == [c \in {} |-> FALSE]

SetResult(results, channel, value) ==
  [c \in DOMAIN results \cup {channel} |-> IF c = channel THEN value ELSE results[c]]

\* the alert object built by createAndSendAlert / sendAlert
NewAlert(id, ruleName, severity, channels, event) ==
  [id |-> id, rule |-> ruleName, severity |-> severity, timestamp |-> now,
   channels |-> channels, event |-> event, delivered |-> FALSE,
   deliveryResults |-> NoResults]

DeliveryError(alert, channel) ==
  [name |-> "delivery-error", alert |-> alert.id, channel |-> channel]

\* one channel's try block has completed or thrown: record its outcome
Delivered(alert, channel) ==
  [alert EXCEPT !.deliveryResults = SetResult(@, channel, channel \notin failing)]

\* variant of deliverAlert that gives up after the first failed channel
RECURSIVE deliverAlert_stopAfterFailure(_, _, _, _, _)
deliverAlert_stopAfterFailure(alert, channels, i, attempted, errors) ==
  IF i > Len(channels) \/ \E c \in DOMAIN alert.deliveryResults : ~alert.deliveryResults[c]
  THEN [pc |-> "delivered", chIdx |-> 0, attempted |-> attempted, errors |-> errors,
        alert |-> [alert EXCEPT !.delivered =
                     \E c \in DOMAIN alert.deliveryResults : alert.deliveryResults[c]]]
  ELSE IF channels[i] = "console"
  THEN deliverAlert_stopAfterFailure(Delivered(alert, "console"), channels, i + 1,
                    attempted \cup {<<alert.id, "console">>},
                    IF "console" \in failing
                    THEN errors \cup {DeliveryError(alert, "console")} ELSE errors)
  ELSE IF channels[i] \in {"slack", "email", "webhook"}
  THEN [pc |-> "deliver", chIdx |-> i, alert |-> alert,
        attempted |-> attempted \cup {<<alert.id, channels[i]>>}, errors |-> errors]
  ELSE deliverAlert_stopAfterFailure(alert, channels, i + 1, attempted, errors)

\* deliverAlert from channel i on, up to the next await (an asynchronous
\* sender has been invoked) or to the end of the channel list
RECURSIVE deliverAlert(_, _, _, _, _)
deliverAlert(alert, channels, i, attempted, errors) ==
  IF i > Len(channels)
  THEN [pc |-> "delivered", chIdx |-> 0, attempted |-> attempted, errors |-> errors,
        alert |-> [alert EXCEPT !.delivered =
                     \E c \in DOMAIN alert.deliveryResults : alert.deliveryResults[c]]]
  ELSE IF channels[i] = "console"
  THEN deliverAlert(Delivered(alert, "console"), channels, i + 1,
                    attempted \cup {<<alert.id, "console">>},
                    IF "console" \in failing
                    THEN errors \cup {DeliveryError(alert, "console")} ELSE errors)
  ELSE IF channels[i] \in {"slack", "email", "webhook"}
  THEN [pc |-> "deliver", chIdx |-> i, alert |-> alert,
        attempted |-> attempted \cup {<<alert.id, channels[i]>>}, errors |-> errors]
  ELSE deliverAlert(alert, channels, i + 1, attempted, errors)

\* the AlertingSystem after construction with the given configuration
AlertingConstructed(cfgThrottle, cfgRules, throwing) ==
  /\ throttleMinutes = ConfigThrottle(cfgThrottle)
  /\ rules = cfgRules
  /\ failing = throwing
  /\ alertHistory = <<>>
  /\ lastAlerts = [n \in {} |-> 0]
  /\ alertCounter = 0
  /\ calls = [c \in 1..MaxCalls |-> [pc |-> "unused"]]
  /\ alertEvents = {}
  /\ deliveries = {}
  /\ evals = {}
  /\ ticks = 0

\* ------------------------------------------------- EnvironmentMonitor
MaxChecks == 4

DefaultMaxResponseTime == 5000

DefaultCheckInterval == 3600000

\* this.intervalId = null
NoInterval == [set |-> FALSE, due |-> 0]

RetentionMs == 7 * 24 * 60 * 60 * 1000

NoBaseline == [url |-> "none", responseTime |-> 0, selectorMatches |-> <<>>]

\* config.targets of the monitor
TargetLists ==
  { << [url |-> "https://shop.example", selectors |-> <<".product", ".price">>,
        maxResponseTime |-> 1000] >>,
    << [url |-> "https://shop.example", selectors |-> <<".product", ".price">>],
       [url |-> "https://blog.example"] >> }

SelectorsOf(target) == IF "selectors" \in DOMAIN target THEN target.selectors ELSE <<>>

\* the ways the execution of a target check can end: after responseTime ms,
\* with html in which selector k of the target matches counts[k] times, or
\* with a thrown error
Executions(target) ==
  IF SelectorsOf(target) = <<>>
  THEN { [ok |-> TRUE, counts |-> <<>>, responseTime |-> 600],
         [ok |-> TRUE, counts |-> <<>>, responseTime |-> 1201],
         [ok |-> FALSE, counts |-> <<>>, responseTime |-> 1200] }
  ELSE { [ok |-> TRUE, counts |-> <<2, 1>>, responseTime |-> 600],
         [ok |-> TRUE, counts |-> <<1, 1>>, responseTime |-> 1200],
         [ok |-> TRUE, counts |-> <<0, 0>>, responseTime |-> 1201],
         [ok |-> TRUE, counts |-> <<2, 0>>, responseTime |-> 2401],
         [ok |-> FALSE, counts |-> <<>>, responseTime |-> 600] }

determineStatus(issues) ==
  IF \E i \in 1..Len(issues) : issues[i].severity = "critical" THEN "critical"
  ELSE IF \E i \in 1..Len(issues) : issues[i].severity = "warning" THEN "warning"
  ELSE "healthy"

\* the check checkTarget returns for an execution that took responseTime ms
checkTarget(target, execution, responseTime) ==
  IF execution.ok
  THEN LET sels == SelectorsOf(target)
           maxTime == IF "maxResponseTime" \in DOMAIN target
                      THEN target.maxResponseTime ELSE DefaultMaxResponseTime
           slow == IF responseTime > maxTime
                   THEN << [type |-> "slow_response",
                            severity |-> IF responseTime > maxTime * 2
                                         THEN "critical" ELSE "warning"] >>
                   ELSE <<>>
           idx == [k \in 1..Len(sels) |-> k]
           missing == SelectSeq(idx, LAMBDA k : execution.counts[k] = 0)
           issues == slow \o [n \in 1..Len(missing) |->
                                [type |-> "missing_selector", severity |-> "warning"]]
       IN [url |-> target.url, timestamp |-> now + responseTime,
           status |-> determineStatus(issues), responseTime |-> responseTime,
           selectorMatches |-> [k \in 1..Len(sels) |->
                                  [selector |-> sels[k], count |-> execution.counts[k]]],
           issues |-> issues]
  ELSE [url |-> target.url, timestamp |-> now + responseTime, status |-> "critical",
        responseTime |-> responseTime, selectorMatches |-> <<>>,
        issues |-> << [type |-> "error", severity |-> "critical"] >>]

\* check.selectorMatches[selector] || 0
CountIn(check, selector) ==
  IF \E k \in 1..Len(check.selectorMatches) : check.selectorMatches[k].selector = selector
  THEN LET k == CHOOSE k \in 1..Len(check.selectorMatches) :
                  check.selectorMatches[k].selector = selector
       IN check.selectorMatches[k].count
  ELSE 0

StructureChange(href, at, selector, before, after) ==
  [url |-> href, timestamp |-> at, changeType |-> "structure", severity |-> "warning",
   selector |-> selector, before |-> before, after |-> after]

\* variant of StructureChanges that reports every drop of a count
StructureChanges_anyDrop(href, current, baseline) ==
  LET entries == current.selectorMatches
      idx == [k \in 1..Len(entries) |-> k]
      gone == SelectSeq(idx, LAMBDA k :
                entries[k].count < CountIn(baseline, entries[k].selector))
  IN [n \in 1..Len(gone) |->
        StructureChange(href, current.timestamp, entries[gone[n]].selector,
                        CountIn(baseline, entries[gone[n]].selector),
                        entries[gone[n]].count)]

\* detectChanges: the loop over Object.entries(current.selectorMatches)
StructureChanges(href, current, baseline) ==
  LET entries == current.selectorMatches
      idx == [k \in 1..Len(entries) |-> k]
      gone == SelectSeq(idx, LAMBDA k :
                entries[k].count = 0 /\ CountIn(baseline, entries[k].selector) > 0)
  IN [n \in 1..Len(gone) |->
        StructureChange(href, current.timestamp, entries[gone[n]].selector,
                        CountIn(baseline, entries[gone[n]].selector),
                        entries[gone[n]].count)]

\* variant of PerformanceChanges that reports a response time of exactly double
PerformanceChanges_atLeastDouble(href, current, baseline) ==
  IF current.responseTime >= baseline.responseTime * 2
  THEN << [url |-> href, timestamp |-> current.timestamp, changeType |-> "performance",
           severity |-> "warning", before |-> baseline.responseTime,
           after |-> current.responseTime] >>
  ELSE <<>>

\* detectChanges: the response time comparison
PerformanceChanges(href, current, baseline) ==
  IF current.responseTime > baseline.responseTime * 2
  THEN << [url |-> href, timestamp |-> current.timestamp, changeType |-> "performance",
           severity |-> "warning", before |-> baseline.responseTime,
           after |-> current.responseTime] >>
  ELSE <<>>

\* variant of detectChanges that compares a first check with an empty baseline
detectChanges_emptyBaseline(stored, href, current) ==
  IF href \notin DOMAIN stored
  THEN [baselines |-> [u \in DOMAIN stored \cup {href} |->
                         IF u = href THEN current ELSE stored[u]],
        changes |-> StructureChanges(href, current,
                                     [responseTime |-> 0, selectorMatches |-> <<>>])
                    \o PerformanceChanges(href, current,
                                     [responseTime |-> 0, selectorMatches |-> <<>>])]
  ELSE [baselines |-> stored,
        changes |-> StructureChanges(href, current, stored[href])
                    \o PerformanceChanges(href, current, stored[href])]

\* variant of detectChanges that makes every check the new baseline
detectChanges_rollingBaseline(stored, href, current) ==
  [baselines |-> [u \in DOMAIN stored \cup {href} |->
                    IF u = href THEN current ELSE stored[u]],
   changes |-> IF href \notin DOMAIN stored THEN <<>>
               ELSE StructureChanges(href, current, stored[href])
                    \o PerformanceChanges(href, current, stored[href])]

\* detectChanges(href, current) with this.baselines = stored: the baselines
\* afterwards and the changes returned
detectChanges(stored, href, current) ==
  IF href \notin DOMAIN stored
  THEN [baselines |-> [u \in DOMAIN stored \cup {href} |->
                         IF u = href THEN current ELSE stored[u]],
        changes |-> <<>>]
  ELSE [baselines |-> stored,
        changes |-> StructureChanges(href, current, stored[href])
                    \o PerformanceChanges(href, current, stored[href])]

\* addToHistory(href, check) at time `at`: push, then prune by retention
addToHistory(history, href, check, at) ==
  LET old == IF href \in DOMAIN history THEN history[href] ELSE <<>>
      cutoff == at - RetentionMs
      kept == SelectSeq(Append(old, check), LAMBDA h : h.timestamp > cutoff)
  IN [u \in DOMAIN history \cup {href} |-> IF u = href THEN kept ELSE history[u]]

\* config.checkInterval || 3600000
ConfigCheckInterval(c) == IF c = 0 THEN DefaultCheckInterval ELSE c

\* the EnvironmentMonitor after construction for the given targets and
\* check interval (0: none given)
MonitorConstructed(cfgTargets, cfgCheckInterval) ==
  /\ targets = cfgTargets
  /\ checkInterval = ConfigCheckInterval(cfgCheckInterval)
  /\ checkHistory = [u \in {} |-> <<>>]
  /\ baselines = [u \in {} |-> NoBaseline]
  /\ monitorEvents = <<>>
  /\ cycle = [pc |-> "idle", idx |-> 0]
  /\ detections = <<>>
  /\ checks = 0
  /\ isRunning = FALSE
  /\ intervalId = NoInterval
  /\ cycles = <<>>

\* the state after construction, whatever the credentials
InitHttp ==
  /\ autoEscalate \in BOOLEAN
  /\ retries \in {ConfigRetries(c) : c \in 0..MaxRetries}
  /\ escalationHistory = <<>>
  /\ now = 0
  /\ hPc = "idle"
  /\ url = Null
  /\ startLevel = Null
  /\ executors = [k \in LevelKeys |-> "absent"]
  /\ currentLevel = Null
  /\ escalationCount = 0
  /\ outcome = [type |-> "none"]
  /\ emitted = <<>>
  /\ trace = <<>>
  /\ fPc = "idle"
  /\ fCaller = Null
  /\ attempt = 0
  /\ retryCount = 0
  /\ lastError = Undefined
  /\ fResult = [type |-> "none"]
  /\ requests = 0
  /\ response = [status |-> 0, data |-> Undefined]
  /\ delays = <<>>
  /\ axiosConfig = [method |-> "none"]
  /\ AnalyzerConstructed
  /\ runs = [r \in 1..MaxRuns |-> NoRun]
  /\ PoolIdle
  /\ McpConstructed
  /\ validation = NoValidation

\* the executor is constructed with both credentials configured
Init ==
  /\ customerId = "hl_1a2b3c"
  /\ password = "s3cret"
  /\ InitHttp
  /\ AlertingConstructed(0, defaultAlertRules, {})
  /\ MonitorConstructed(<<>>, 0)
  /\ BrowserConstructed(0)

\* ------------------------------------------------- HttpExecutor.fetch
\* fetch(url): entry up to the first await of axios
FetchEnter(caller) ==
  /\ fPc' = "request"
  /\ fCaller' = caller
  /\ attempt' = 0
  /\ retryCount' = 0
  /\ lastError' = Undefined
  /\ fResult' = [type |-> "none"]
  /\ requests' = 1
  /\ response' = [status |-> 0, data |-> Undefined]
  /\ delays' = <<>>
  /\ axiosConfig' = buildAxiosConfig

\* a direct call of fetch by the user of the executor
CallFetch ==
  /\ hPc = "idle"
  /\ fPc = "idle"
  /\ FetchEnter("user")
  /\ UNCHANGED <<restVars, autoEscalate, retries, escalationHistory, now, handlerVars>>

\* axios resolves: executeRequest returns and fetch returns its result
RequestResolve ==
  /\ fPc = "request"
  /\ \E status \in {s \in Statuses : validateStatus(s)}, data \in Bodies \cup {JsonData} :
       /\ response' = [status |-> status, data |-> data]
       /\ fResult' = [type |-> "returned",
                      value |-> executeRequestResult(status, data, retryCount)]
  /\ fPc' = "done"
  /\ UNCHANGED <<restVars, autoEscalate, retries, escalationHistory, now, handlerVars,
                 fCaller, attempt, retryCount, lastError, requests, delays,
                 axiosConfig>>

\* the catch block of fetch after the request of the current attempt failed
FetchCatch(error) ==
  /\ lastError' = error
  /\ retryCount' = retryCount + 1
  /\ IF attempt < retries
     THEN IF shouldEscalate(error)
          THEN /\ fResult' = [type |-> "returned",
                              value |-> buildEscalationResult(retryCount + 1, error)]
               /\ fPc' = "done"
               /\ attempt' = attempt
          ELSE /\ fPc' = "delay"
               /\ UNCHANGED <<fResult, attempt>>
     ELSE /\ attempt' = attempt + 1
          /\ fResult' = [type |-> "returned",
                         value |-> buildFailureResult(retryCount + 1, error)]
          /\ fPc' = "done"

\* axios rejects (network error, or a status validateStatus refuses)
RequestReject ==
  /\ fPc = "request"
  /\ \E error \in AxiosErrors :
       FetchCatch(error)
  /\ UNCHANGED <<restVars, autoEscalate, retries, escalationHistory, now, handlerVars,
                 fCaller, requests, response, delays, axiosConfig>>

\* variant of FetchDelayDone waiting retryDelay before every retry
FetchDelayDone_constantDelay ==
  /\ fPc = "delay"
  /\ now' = now + RetryDelay
  /\ delays' = Append(delays, RetryDelay)
  /\ axiosConfig' = buildAxiosConfig
  /\ attempt' = attempt + 1
  /\ requests' = requests + 1
  /\ fPc' = "request"
  /\ UNCHANGED <<restVars, autoEscalate, retries, escalationHistory, handlerVars,
                 fCaller, retryCount, lastError, fResult, response>>

\* the delay before the next attempt elapses; the next request is issued
FetchDelayDone ==
  /\ fPc = "delay"
  /\ now' = now + RetryDelay * (attempt + 1)
  /\ delays' = Append(delays, RetryDelay * (attempt + 1))
  /\ axiosConfig' = buildAxiosConfig
  /\ attempt' = attempt + 1
  /\ requests' = requests + 1
  /\ fPc' = "request"
  /\ UNCHANGED <<restVars, autoEscalate, retries, escalationHistory, handlerVars,
                 fCaller, retryCount, lastError, fResult, response>>

\* ------------------------------------------------- executeWithEscalation
StartLevelOf(opt) == IF opt = Null THEN "http" ELSE opt

Settle(tr, how, value) ==
  [tr EXCEPT ![Len(tr)] = [level |-> tr[Len(tr)].level, state |-> how, value |-> value]]

\* head of the while loop with locals (level, count): leave the loop, or emit
\* 'execution-start' and invoke the executor of the level
Iterate(level, count, ev, tr, exs) ==
  /\ currentLevel' = level
  /\ escalationCount' = count
  /\ IF count < Len(Levels) /\ exs[level] # "absent"
     THEN /\ hPc' = "exec"
          /\ outcome' = [type |-> "none"]
          /\ emitted' = Append(ev, [name |-> "execution-start", level |-> level])
          /\ trace' = Append(tr, [level |-> level, state |-> "pending",
                                  value |-> [type |-> "none"]])
          /\ IF exs[level] = "fetch"
             THEN FetchEnter("handler")
             ELSE UNCHANGED fetchVars
     ELSE /\ hPc' = "done"
          /\ outcome' = [type |-> "undefined"]
          /\ emitted' = ev
          /\ trace' = tr
          /\ UNCHANGED fetchVars

\* the call executeWithEscalation(url, executors, options)
Start ==
  /\ hPc = "idle"
  /\ fPc = "idle"
  /\ \E u \in Urls, opt \in LevelKeys \cup {Null}, exs \in ExecutorMaps :
       /\ url' = u
       /\ startLevel' = StartLevelOf(opt)
       /\ executors' = exs
       /\ Iterate(StartLevelOf(opt), 0, <<>>, <<>>, exs)
  /\ UNCHANGED <<restVars, autoEscalate, retries, escalationHistory, now>>

\* variant of HandleResult that advances a tier whatever config.autoEscalate says
HandleResult_alwaysEscalate(r) ==
  LET nextLevel == getNextLevel(currentLevel)
  IN /\ trace' = Settle(trace, "resolved",
                         [success |-> Truthy(r, "success"),
                          escalationNeeded |-> Truthy(r, "escalationNeeded")])
     /\ IF Truthy(r, "escalationNeeded") /\ nextLevel # Null
        THEN /\ emitted' = Append(emitted,
                             [name |-> "escalation", fromLevel |-> currentLevel,
                              toLevel |-> nextLevel,
                              reason |-> Get(r, "escalationReason")])
             /\ escalationHistory' = Append(escalationHistory,
                             [url |-> url, fromLevel |-> currentLevel,
                              reason |-> Get(r, "escalationReason"),
                              timestamp |-> now])
             /\ currentLevel' = nextLevel
             /\ escalationCount' = escalationCount + 1
             /\ hPc' = "delay"
             /\ UNCHANGED outcome
        ELSE /\ outcome' = [type |-> "returned",
                            value |-> FinalResult(r, currentLevel, escalationCount)]
             /\ hPc' = "done"
             /\ UNCHANGED <<emitted, escalationHistory, currentLevel, escalationCount>>

\* the try block after the executor's promise resolved with result r
HandleResult(r) ==
  LET nextLevel == getNextLevel(currentLevel)
  IN /\ trace' = Settle(trace, "resolved",
                         [success |-> Truthy(r, "success"),
                          escalationNeeded |-> Truthy(r, "escalationNeeded")])
     /\ IF Truthy(r, "escalationNeeded") /\ autoEscalate /\ nextLevel # Null
        THEN /\ emitted' = Append(emitted,
                             [name |-> "escalation", fromLevel |-> currentLevel,
                              toLevel |-> nextLevel,
                              reason |-> Get(r, "escalationReason")])
             /\ escalationHistory' = Append(escalationHistory,
                             [url |-> url, fromLevel |-> currentLevel,
                              reason |-> Get(r, "escalationReason"),
                              timestamp |-> now])
             /\ currentLevel' = nextLevel
             /\ escalationCount' = escalationCount + 1
             /\ hPc' = "delay"
             /\ UNCHANGED outcome
        ELSE /\ outcome' = [type |-> "returned",
                            value |-> FinalResult(r, currentLevel, escalationCount)]
             /\ hPc' = "done"
             /\ UNCHANGED <<emitted, escalationHistory, currentLevel, escalationCount>>

HandleError_policy(error) ==
  LET nextLevel == getNextLevel(currentLevel)
  IN IF nextLevel # Null /\ autoEscalate /\ shouldEscalate(error)
     THEN Iterate(nextLevel, escalationCount + 1, emitted,
                  Settle(trace, "rejected", error), executors)
     ELSE /\ hPc' = "done"
          /\ outcome' = [type |-> "threw", error |-> error]
          /\ trace' = Settle(trace, "rejected", error)
          /\ UNCHANGED <<currentLevel, escalationCount, emitted, fetchVars>>

\* variant of HandleError that goes on to the next level while the
\* invocation of the current level is still unsettled
HandleError_unsettled(error) ==
  LET nextLevel == getNextLevel(currentLevel)
  IN IF nextLevel # Null /\ autoEscalate
     THEN Iterate(nextLevel, escalationCount + 1, emitted, trace, executors)
     ELSE /\ hPc' = "done"
          /\ outcome' = [type |-> "threw", error |-> error]
          /\ trace' = Settle(trace, "rejected", error)
          /\ UNCHANGED <<currentLevel, escalationCount, emitted, fetchVars>>

\* variant of HandleError that moves to the next level without counting it
HandleError_uncounted(error) ==
  LET nextLevel == getNextLevel(currentLevel)
  IN IF nextLevel # Null /\ autoEscalate
     THEN Iterate(nextLevel, escalationCount, emitted,
                  Settle(trace, "rejected", error), executors)
     ELSE /\ hPc' = "done"
          /\ outcome' = [type |-> "threw", error |-> error]
          /\ trace' = Settle(trace, "rejected", error)
          /\ UNCHANGED <<currentLevel, escalationCount, emitted, fetchVars>>

\* the catch block after the executor's promise rejected with error
HandleError(error) ==
  LET nextLevel == getNextLevel(currentLevel)
  IN IF nextLevel # Null /\ autoEscalate
     THEN Iterate(nextLevel, escalationCount + 1, emitted,
                  Settle(trace, "rejected", error), executors)
     ELSE /\ hPc' = "done"
          /\ outcome' = [type |-> "threw", error |-> error]
          /\ trace' = Settle(trace, "rejected", error)
          /\ UNCHANGED <<currentLevel, escalationCount, emitted, fetchVars>>

\* a function or BrowserExecutor executor resolves
ExecResolve ==
  /\ hPc = "exec"
  /\ executors[currentLevel] \in {"function", "execute"}
  /\ \E r \in IF executors[currentLevel] = "function" THEN FunctionResults
                                                       ELSE BrowserResults :
       HandleResult(r)
  /\ UNCHANGED <<restVars, autoEscalate, retries, now, url, startLevel, executors,
                 fetchVars>>

\* the HttpExecutor's fetch, called by the handler, has returned
FetchReturn ==
  /\ hPc = "exec"
  /\ executors[currentLevel] = "fetch"
  /\ fPc = "done"
  /\ fCaller = "handler"
  /\ HandleResult(fResult.value)
  /\ fPc' = "idle"
  /\ response' = [status |-> 0, data |-> Undefined]
  /\ UNCHANGED <<restVars, autoEscalate, retries, now, url, startLevel, executors,
                 fCaller, attempt, retryCount, lastError, fResult, requests, delays,
                 axiosConfig>>

\* a function executor rejects
ExecReject ==
  /\ hPc = "exec"
  /\ executors[currentLevel] = "function"
  /\ \E error \in ExecutorErrors : HandleError(error)
  /\ UNCHANGED <<restVars, autoEscalate, retries, escalationHistory, now, url,
                 startLevel, executors>>

\* the escalation delay elapses and the loop continues at the next level
DelayDone ==
  /\ hPc = "delay"
  /\ now' = now + EscalationDelay
  /\ Iterate(currentLevel, escalationCount, emitted, trace, executors)
  /\ UNCHANGED <<restVars, autoEscalate, retries, escalationHistory, url, startLevel,
                 executors>>

Next ==
  \/ Start
  \/ ExecResolve
  \/ ExecReject
  \/ FetchReturn
  \/ DelayDone
  \/ CallFetch
  \/ RequestResolve
  \/ RequestReject
  \/ FetchDelayDone

Spec == Init /\ [][Next]_vars

\* ------------------------------------------------- properties
AllTiersSupplied == \A i \in 1..Len(Levels) : executors[Levels[i]] # "absent"

Rank(level) == IndexOf(Levels, level)

TraceLevels == [i \in 1..Len(trace) |-> trace[i].level]

EscalationEvents == SelectSeq(emitted, LAMBDA e : e.name = "escalation")

\* every executor result of the run so far signals escalationNeeded
PerpetualEscalation ==
  \A i \in 1..Len(trace) :
    /\ trace[i].state # "rejected"
    /\ trace[i].state = "resolved" => trace[i].value.escalationNeeded

\* C1: with autoEscalate enabled and an executor for every tier, a run that
\* starts at 'http' and only ever sees results signalling escalationNeeded
\* invokes exactly the three executors, one per tier, and then returns.
C1_TerminatesAfterAllTiers ==
  (autoEscalate /\ hPc # "idle" /\ startLevel = "http" /\ AllTiersSupplied
     /\ PerpetualEscalation)
  => /\ Len(trace) <= Len(Levels)
     /\ TraceLevels = SubSeq(Levels, 1, Len(trace))
     /\ hPc = "done" => (Len(trace) = Len(Levels) /\ outcome.type = "returned")

C1_Witness ==
  /\ autoEscalate /\ startLevel = "http" /\ AllTiersSupplied /\ PerpetualEscalation
  /\ hPc = "done"
  /\ Len(trace) = Len(Levels)

\* C2: within one run the tiers at which executors are invoked never go back
\* to a lower tier of the level order, whatever the start level and outcomes.
C2_TiersNonDecreasing ==
  \A i, j \in 1..Len(trace) : i < j => Rank(trace[i].level) <= Rank(trace[j].level)

C2_Witness ==
  /\ Len(trace) = 3
  /\ startLevel = "mcp"
  /\ trace[1].state = "rejected"
  /\ trace[2].state = "resolved"

TopLevel == Levels[Len(Levels)]

Last(seq) == seq[Len(seq)]

\* the HttpExecutor and BrowserExecutors of the repository serve the tiers
RepositoryExecutors ==
  /\ executors["http"] = "fetch"
  /\ executors["browser-light"] = "execute"
  /\ executors["browser-advanced"] = "execute"

\* C3: with autoEscalate enabled and executors for all tiers, a returned
\* result either has success = true or was produced by the top tier: a
\* failed result of a lower tier is never returned as final.
C3_ReturnsSuccessOrTopTier ==
  (autoEscalate /\ RepositoryExecutors /\ hPc = "done" /\ outcome.type = "returned")
  => \/ Truthy(outcome.value, "success")
     \/ outcome.value.executionLevel = TopLevel

\* C4: when the top tier's result still reports escalationNeeded, the run
\* returns that result, labelled with the top tier, instead of throwing or
\* escalating again.
C4_ExhaustedTiersReturnResult ==
  (Len(trace) > 0 /\ Last(trace).level = TopLevel /\ Last(trace).state = "resolved"
     /\ Last(trace).value.escalationNeeded)
  => /\ hPc = "done"
     /\ outcome.type = "returned"
     /\ outcome.value.executionLevel = TopLevel
     /\ outcome.value.escalationCount = escalationCount
     /\ Truthy(outcome.value, "escalationNeeded")
     /\ Truthy(outcome.value, "success") = Last(trace).value.success

C4_Witness ==
  /\ autoEscalate
  /\ Len(trace) = Len(Levels)
  /\ Last(trace).level = TopLevel
  /\ Last(trace).state = "resolved"
  /\ Last(trace).value.escalationNeeded
  /\ ~Last(trace).value.success

\* the 'http' tier of the run is the HttpExecutor and it received a body
\* containing "Please enable JavaScript"
HttpGotEnableJavaScript ==
  /\ hPc = "exec"
  /\ executors["http"] = "fetch"
  /\ currentLevel = "http"
  /\ fPc = "done"
  /\ Includes(response.data, "Please enable JavaScript")

\* the run started at the HttpExecutor, which asked for escalation because
\* JavaScript is required, and a 'browser-light' executor is supplied
EscalatedForJavaScript ==
  /\ autoEscalate
  /\ startLevel = "http"
  /\ executors["http"] = "fetch"
  /\ executors["browser-light"] # "absent"
  /\ Len(trace) >= 1
  /\ trace[1].state = "resolved"
  /\ Len(EscalationEvents) >= 1
  /\ EscalationEvents[1].reason = <<"JavaScript", "required">>

C6_EveryAdvanceEmitsEscalation ==
  hPc # "idle"
  => /\ Len(EscalationEvents) = escalationCount
     /\ \A i \in 1..Len(EscalationEvents) :
          /\ {"fromLevel", "toLevel", "reason"} \subseteq DOMAIN EscalationEvents[i]
          /\ Rank(EscalationEvents[i].toLevel) = Rank(EscalationEvents[i].fromLevel) + 1

\* C7: the history holds one entry per advance of the run and every entry
\* carries timestamp, source tier, destination tier and reason.
C7_HistoryRecordsEveryAdvance ==
  hPc # "idle"
  => /\ Len(escalationHistory) = escalationCount
     /\ \A i \in 1..Len(escalationHistory) :
          {"timestamp", "fromLevel", "toLevel", "reason"} \subseteq DOMAIN escalationHistory[i]

\* C8 as claimed: an executor error is escalated to the next tier only when
\* its text matches the error-to-escalation policy.
C8_OnlyPolicyErrorsFallBack ==
  \A i \in 1..Len(trace) :
    (trace[i].state = "rejected" /\ ~shouldEscalate(trace[i].value))
    => /\ i = Len(trace)
       /\ hPc = "done"
       /\ outcome.type = "threw"

\* C8 amended: with autoEscalate enabled, every executor error at a tier
\* that has a next tier falls back to that next tier, whatever its text; an
\* error is rethrown only at the top tier or with autoEscalate disabled.
C8_AnyErrorFallsBack ==
  /\ \A i \in 1..Len(trace) :
       (trace[i].state = "rejected" /\ autoEscalate /\ getNextLevel(trace[i].level) # Null)
       => IF i < Len(trace)
          THEN trace[i + 1].level = getNextLevel(trace[i].level)
          ELSE /\ hPc = "done"
               /\ outcome.type = "undefined"
               /\ currentLevel = getNextLevel(trace[i].level)
  /\ (hPc = "done" /\ outcome.type = "threw")
     => /\ Last(trace).state = "rejected"
        /\ outcome.error = Last(trace).value
        /\ ~autoEscalate \/ getNextLevel(Last(trace).level) = Null

C8_Witness ==
  \E i \in 1..Len(trace) :
    /\ trace[i].state = "rejected"
    /\ ~shouldEscalate(trace[i].value)
    /\ i < Len(trace)
    /\ trace[i + 1].level = "browser-light"

\* C9: a request error whose message matches the blocking substrings makes
\* fetch return escalationNeeded = true on whichever attempt it occurs,
\* including the last one, with no further attempt.
C9_BlockingErrorAlwaysEscalates ==
  (lastError # Undefined /\ shouldEscalate(lastError))
  => /\ fPc \in {"done", "idle"}
     /\ fResult.type = "returned"
     /\ Truthy(fResult.value, "escalationNeeded")

\* C10: when every attempt failed with a non-blocking error and the retry
\* budget is exhausted, the result of fetch signals escalationNeeded = true.
C10_ExhaustedRetriesEscalate ==
  (fResult.type = "returned" /\ ~Truthy(fResult.value, "success")
     /\ ~shouldEscalate(lastError))
  => Truthy(fResult.value, "escalationNeeded")

\* ------------------------------------------------- HttpExecutor used alone
\* the executor constructed with or without each credential
InitFetch ==
  /\ customerId \in Credentials
  /\ password \in Passwords
  /\ InitHttp
  /\ AlertingConstructed(0, defaultAlertRules, {})
  /\ MonitorConstructed(<<>>, 0)
  /\ BrowserConstructed(0)

NextFetch ==
  \/ CallFetch
  \/ RequestResolve
  \/ RequestReject
  \/ FetchDelayDone

SpecFetch == InitFetch /\ [][NextFetch]_vars

\* the waits of one fetch are retryDelay * k after failed attempt k, and a
\* wait is only ever pending when another attempt follows it
LinearWaits ==
  /\ delays = [k \in 1..Len(delays) |-> RetryDelay * k]
  /\ fPc # "idle" => Len(delays) = requests - 1
  /\ fPc = "delay" => requests <= retries

AnsweredStatus ==
  IF response.status # 0 THEN response.status
  ELSE IF \E st \in Statuses : lastError = StatusError(st)
       THEN CHOOSE st \in Statuses : lastError = StatusError(st)
       ELSE 0

\* C12: once a request of fetch is answered with HTTP 403 or 503, fetch
\* has returned escalationNeeded = true without a further request, whatever
\* the response body contains.
C12_BlockedStatusEscalatesAtOnce ==
  (fPc # "idle" /\ AnsweredStatus \in {403, 503})
  => /\ fPc = "done"
     /\ fResult.type = "returned"
     /\ Truthy(fResult.value, "escalationNeeded")

MissingCredentials == customerId = "" \/ password = ""

\* C13 as claimed: with customerId or password not configured, fetch issues
\* no request, waits for no retry and returns no escalation signal.
C13_MissingCredentialsIssueNoRequest ==
  MissingCredentials
  => /\ requests = 0
     /\ delays = <<>>
     /\ fResult.type = "returned" => ~Truthy(fResult.value, "escalationNeeded")

\* C13 amended: with customerId or password not configured, fetch issues its
\* requests without a proxy and reports proxyUsed = false in the result of a
\* request that resolved; with both configured every request carries the proxy.
C13_MissingCredentialsFetchDirect ==
  fPc # "idle"
  => /\ requests >= 1
     /\ MissingCredentials <=> "proxy" \notin DOMAIN axiosConfig
     /\ (fResult.type = "returned" /\ "proxyUsed" \in DOMAIN fResult.value)
        => (fResult.value.proxyUsed <=> ~MissingCredentials)

C13_Witness ==
  /\ customerId # ""
  /\ password = ""
  /\ fPc = "done"
  /\ requests >= 2
  /\ "proxy" \notin DOMAIN axiosConfig
  /\ Truthy(fResult.value, "escalationNeeded")
  /\ ~Get(fResult.value, "proxyUsed")

\* ------------------------------------------------- AlertingSystem used alone
\* configurations: config.throttleMinutes (0: not given), config.rules, and
\* the channels whose sender throws
AlertConfigs ==
  { <<0, defaultAlertRules, {}>>,
    <<0, defaultAlertRules, {"console"}>>,
    <<1, callerRules, {"slack"}>>,
    <<0, callerRules, Channels>> }

httpVars == <<autoEscalate, retries, escalationHistory, handlerVars, fetchVars, credVars,
              analyzerVars, runVars, poolVars, browserVars, mcpVars, geoVars>>

alertConfig == <<throttleMinutes, rules, failing>>

NoAlert == [id |-> 0]

\* an invocation that returned the alerts of the given ids
Returned(rec, ids) ==
  [pc |-> "returned", kind |-> rec.kind, alerts |-> ids]

InFlight(c) == calls[c].pc \in {"deliver", "delivered", "created"}

Unused == {c \in 1..MaxCalls : calls[c].pc = "unused"}

\* index of the first rule from `from` on that matches and is not throttled, 0 if none
RECURSIVE FirstFiring(_, _, _)
FirstFiring(event, last, from) ==
  IF from > Len(rules) THEN 0
  ELSE IF condition(rules[from], event) /\ ~isThrottled(rules[from], last) THEN from
  ELSE FirstFiring(event, last, from + 1)

\* the rules from..upto whose condition matched, with the clock and the
\* rule's last alert time at the moment of the evaluation
EvalEntries(c, event, last, from, upto) ==
  LET idx == [k \in 1..(upto - from + 1) |-> from + k - 1]
      matched == SelectSeq(idx, LAMBDA k : condition(rules[k], event))
  IN {[call |-> c, rule |-> rules[matched[n]].name, at |-> now,
       last |-> IF rules[matched[n]].name \in DOMAIN last
                THEN last[rules[matched[n]].name] ELSE Never] : n \in 1..Len(matched)}

\* the for loop of processEvent from rule index `from` up to its next await
\* (inside createAndSendAlert) or to its return
Loop(c, rec, last, from) ==
  LET j == FirstFiring(rec.event, last, from)
  IN /\ evals' = evals \cup EvalEntries(c, rec.event, last, from,
                                     IF j = 0 THEN Len(rules) ELSE j)
     /\ IF j = 0
        THEN /\ calls' = [calls EXCEPT ![c] = Returned(rec, rec.alerts)]
             /\ UNCHANGED <<alertCounter, deliveries, alertEvents>>
        ELSE LET alert == NewAlert(alertCounter + 1, rules[j].name, rules[j].severity,
                                   rules[j].channels, rec.event)
                 d == deliverAlert(alert, rules[j].channels, 1, {}, {})
             IN /\ alertCounter' = alertCounter + 1
                /\ calls' = [calls EXCEPT ![c] =
                               [rec EXCEPT !.pc = d.pc, !.ruleIdx = j,
                                           !.alert = d.alert, !.chIdx = d.chIdx]]
                /\ deliveries' = deliveries \cup d.attempted
                /\ alertEvents' = alertEvents \cup d.errors

\* processEvent(event) begins for an event of the given kind
processEvent(kind) ==
  LET c == CHOOSE u \in Unused : \A v \in Unused : u <= v
      rec == [pc |-> "unused", kind |-> "processEvent",
              event |-> [id |-> c, type |-> kind.type, data |-> kind.data],
              ruleIdx |-> 0, alert |-> NoAlert, chIdx |-> 0, alerts |-> <<>>]
  IN Loop(c, rec, lastAlerts, 1)

\* a caller invokes processEvent(event) and awaits it before its next call
ProcessEvent ==
  /\ Unused # {}
  /\ \A o \in 1..MaxCalls : ~InFlight(o)
  /\ \E kind \in EventKinds : processEvent(kind)
  /\ UNCHANGED <<httpVars, monitorVars, now, alertConfig, alertHistory, lastAlerts, ticks>>

\* a listener registered by pipe() invokes processEvent(event) without
\* awaiting it, for an event the piped source emits
PipedEvent ==
  /\ Unused # {}
  /\ Cardinality({c \in 1..MaxCalls : calls[c].pc # "unused"}) < MaxPiped
  /\ \E kind \in EventKinds : processEvent(kind)
  /\ UNCHANGED <<httpVars, monitorVars, now, alertConfig, alertHistory, lastAlerts, ticks>>

\* sendAlert(message, severity, channels) is invoked
SendAlert ==
  /\ Unused # {}
  /\ \A o \in 1..MaxCalls : ~InFlight(o)
  /\ \E channels \in SendAlertChannels :
       LET c == CHOOSE u \in Unused : \A v \in Unused : u <= v
           event == [id |-> c, type |-> "custom", data |-> [source |-> "manual"]]
           alert == NewAlert(alertCounter + 1, "custom", "info", channels, event)
           d == deliverAlert(alert, channels, 1, {}, {})
       IN /\ alertCounter' = alertCounter + 1
          /\ calls' = [calls EXCEPT ![c] =
                         [pc |-> d.pc, kind |-> "sendAlert", event |-> event,
                          ruleIdx |-> 0, alert |-> d.alert, chIdx |-> d.chIdx,
                          alerts |-> <<>>]]
          /\ deliveries' = deliveries \cup d.attempted
          /\ alertEvents' = alertEvents \cup d.errors
  /\ UNCHANGED <<httpVars, monitorVars, now, alertConfig, alertHistory, lastAlerts, evals, ticks>>

\* deliverAlert resumes after the await of an asynchronous sender
DeliverAlertResume ==
  \E c \in 1..MaxCalls :
    /\ calls[c].pc = "deliver"
    /\ LET rec == calls[c]
           channel == rec.alert.channels[rec.chIdx]
           d == deliverAlert(Delivered(rec.alert, channel), rec.alert.channels,
                             rec.chIdx + 1, {},
                             IF channel \in failing
                             THEN {DeliveryError(rec.alert, channel)} ELSE {})
       IN /\ calls' = [calls EXCEPT ![c] =
                         [rec EXCEPT !.pc = d.pc, !.alert = d.alert, !.chIdx = d.chIdx]]
          /\ deliveries' = deliveries \cup d.attempted
          /\ alertEvents' = alertEvents \cup d.errors
    /\ UNCHANGED <<httpVars, monitorVars, now, alertConfig, alertHistory, lastAlerts, alertCounter,
                   evals, ticks>>

\* createAndSendAlert / sendAlert resumes after `await this.deliverAlert(...)`
CreateAndSendAlertResume ==
  \E c \in 1..MaxCalls :
    /\ calls[c].pc = "delivered"
    /\ alertHistory' = Append(alertHistory, calls[c].alert)
    /\ alertEvents' = alertEvents \cup {[name |-> "alert", alert |-> calls[c].alert.id]}
    /\ calls' = [calls EXCEPT ![c] =
                   IF calls[c].kind = "processEvent"
                   THEN [calls[c] EXCEPT !.pc = "created"]
                   ELSE Returned(calls[c], <<calls[c].alert.id>>)]
    /\ UNCHANGED <<httpVars, monitorVars, now, alertConfig, lastAlerts, alertCounter, deliveries,
                   evals, ticks>>

\* processEvent resumes after `await this.createAndSendAlert(...)`
ProcessEventResume ==
  \E c \in 1..MaxCalls :
    /\ calls[c].pc = "created"
    /\ LET rec == calls[c]
           name == rules[rec.ruleIdx].name
           last == [n \in DOMAIN lastAlerts \cup {name} |->
                      IF n = name THEN now ELSE lastAlerts[n]]
       IN /\ lastAlerts' = last
          /\ Loop(c, [rec EXCEPT !.alerts = Append(@, rec.alert.id)], last,
                  rec.ruleIdx + 1)
    /\ UNCHANGED <<httpVars, monitorVars, now, alertConfig, alertHistory, ticks>>

\* the clock advances
Tick ==
  /\ ticks < MaxTicks
  /\ \E d \in TickSteps : now' = now + d
  /\ ticks' = ticks + 1
  /\ UNCHANGED <<httpVars, monitorVars, alertConfig, alertHistory, lastAlerts, alertCounter, calls,
                 alertEvents, deliveries, evals>>

InitAlert ==
  /\ customerId = "hl_1a2b3c"
  /\ password = "s3cret"
  /\ InitHttp
  /\ autoEscalate
  /\ retries = DefaultRetries
  /\ \E cfg \in AlertConfigs : AlertingConstructed(cfg[1], cfg[2], cfg[3])
  /\ MonitorConstructed(<<>>, 0)
  /\ BrowserConstructed(0)

NextAlert ==
  \/ ProcessEvent
  \/ SendAlert
  \/ DeliverAlertResume
  \/ CreateAndSendAlertResume
  \/ ProcessEventResume
  \/ Tick

SpecAlert == InitAlert /\ [][NextAlert]_vars

\* ------------------------------------------------- AlertingSystem piped to a source
NextPipe ==
  \/ PipedEvent
  \/ DeliverAlertResume
  \/ CreateAndSendAlertResume
  \/ ProcessEventResume
  \/ Tick

SpecPipe == InitAlert /\ [][NextPipe]_vars

\* the throttle window of a rule in ms: its own throttle, else the default
WindowMs(rule) ==
  (IF "throttle" \in DOMAIN rule THEN rule.throttle ELSE throttleMinutes) * 60000

RuleNamed(name) == CHOOSE i \in 1..Len(rules) : rules[i].name = name

\* C14: no two alerts of one rule in alertHistory were created closer
\* together than the rule's throttle window, under every interleaving of
\* processEvent invocations.
C14_NoTwoAlertsWithinWindow ==
  \A i, j \in 1..Len(alertHistory) :
    (i < j /\ alertHistory[i].rule = alertHistory[j].rule
       /\ alertHistory[i].rule # "custom")
    => alertHistory[j].timestamp - alertHistory[i].timestamp
         >= WindowMs(rules[RuleNamed(alertHistory[i].rule)])

HistoryIds == {alertHistory[i].id : i \in 1..Len(alertHistory)}

Listed(alert) == {alert.channels[k] : k \in 1..Len(alert.channels)}

\* C17: every alert in alertHistory had a sender invoked for each of its
\* listed channels and holds one outcome per listed channel, false exactly
\* for the channels whose sender threw; the invocation that made the alert
\* returned it although a sender threw.
C17_EveryChannelHasItsOutcome ==
  /\ \A i \in 1..Len(alertHistory) :
       LET a == alertHistory[i]
       IN /\ DOMAIN a.deliveryResults = Listed(a)
          /\ \A ch \in Listed(a) :
               /\ <<a.id, ch>> \in deliveries
               /\ a.deliveryResults[ch] = (ch \notin failing)
          /\ a.delivered = (\E ch \in Listed(a) : ch \notin failing)
  /\ \A c \in 1..MaxCalls :
       calls[c].pc = "returned"
       => /\ \A k \in 1..Len(calls[c].alerts) : calls[c].alerts[k] \in HistoryIds
          /\ calls[c].kind = "sendAlert" => Len(calls[c].alerts) = 1

C17_Witness ==
  /\ failing = {"slack"}
  /\ \E c \in 1..MaxCalls :
       /\ calls[c].pc = "returned"
       /\ calls[c].kind = "processEvent"
       /\ Len(calls[c].alerts) = 1
       /\ \E i \in 1..Len(alertHistory) :
            /\ alertHistory[i].id = calls[c].alerts[1]
            /\ alertHistory[i].channels = <<"slack", "console", "email">>
            /\ alertHistory[i].deliveryResults =
                 [ch \in {"slack", "console", "email"} |-> ch # "slack"]

\* the evaluation found its rule inside the throttle window
Throttled(x) ==
  x.last # Never /\ x.at - x.last < WindowMs(rules[RuleNamed(x.rule)])

\* the alerts in alertHistory made for rule `name` by invocation c
AlertsFor(name, c) ==
  {i \in 1..Len(alertHistory) :
     alertHistory[i].rule = name /\ alertHistory[i].event.id = c}

\* C15: with processEvent awaited call after call, a matching rule whose
\* last alert is less than its window old (rule.throttle minutes, else the
\* default throttleMinutes) appends no alert, and a matching rule that never
\* fired or whose window has elapsed appends exactly one.
C15_OneAlertPerWindow ==
  \A x \in evals :
    calls[x.call].pc = "returned"
    => Cardinality(AlertsFor(x.rule, x.call)) = IF Throttled(x) THEN 0 ELSE 1

C15_Witness ==
  /\ throttleMinutes = DefaultThrottleMinutes
  /\ \A c \in 1..MaxCalls : calls[c].pc = "returned"
  /\ \E x, y, z \in evals :
       /\ x.rule = "Structure Change" /\ y.rule = x.rule /\ z.rule = x.rule
       /\ x.call = 1 /\ y.call = 2 /\ z.call = 3
       /\ x.last = Never
       /\ y.at - y.last = 1
       /\ z.at - z.last = 300000
  /\ Len(alertHistory) = 2
  /\ AlertsFor("Structure Change", 2) = {}
  /\ AlertsFor("Structure Change", 3) = {2}

\* the step evaluates a rule inside its window: nothing of that rule changes
SkippedEntirely ==
  LET new == evals' \ evals
      skipped == {x \in new : Throttled(x)}
  IN skipped # {}
     => /\ \A x \in skipped :
             /\ x.rule \in DOMAIN lastAlerts'
             /\ lastAlerts'[x.rule] = x.last
        /\ alertHistory' = alertHistory
        /\ alertCounter' = alertCounter + Cardinality(new \ skipped)
        /\ \A d \in deliveries' \ deliveries :
             \E c \in 1..MaxCalls :
               /\ InFlight(c)'
               /\ calls'[c].alert.id = d[1]
               /\ \A x \in skipped : calls'[c].alert.rule # x.rule
        /\ \A ev \in alertEvents' \ alertEvents :
             /\ ev.name = "delivery-error"
             /\ \E c \in 1..MaxCalls :
                  /\ InFlight(c)'
                  /\ calls'[c].alert.id = ev.alert
                  /\ \A x \in skipped : calls'[c].alert.rule # x.rule

\* C16: an evaluation that finds its rule throttled is skipped entirely: it
\* invokes no sender, emits no 'alert' event and leaves alertHistory,
\* alertCounter and the rule's last-alert time as they were; no alert of
\* that evaluation ever exists.
C16_ThrottledEvaluationSkipped ==
  /\ [][SkippedEntirely]_vars
  /\ [](\A x \in evals :
          Throttled(x)
          => /\ AlertsFor(x.rule, x.call) = {}
             /\ InFlight(x.call) => calls[x.call].alert.rule # x.rule)

C16_Witness ==
  /\ \E x \in evals :
       /\ Throttled(x)
       /\ x.call = 2
       /\ calls[2].pc = "returned"
       /\ calls[2].alerts = <<>>
  /\ alertCounter = 1
  /\ Len(alertHistory) = 1
  /\ Cardinality(deliveries) = 2
  /\ alertEvents = {[name |-> "alert", alert |-> 1]}

\* ------------------------------------------------- EnvironmentMonitor used alone
MaxSetBaselines == 1

BaselineOf(stored, href) == IF href \in DOMAIN stored THEN stored[href] ELSE NoBaseline

\* runChecks() is called while no other cycle is under way: the check of the
\* first target begins
RunChecks ==
  /\ cycle.pc = "idle"
  /\ Len(targets) > 0
  /\ checks + Len(targets) <= MaxChecks
  /\ cycle' = [pc |-> "checking", idx |-> 1]
  /\ checks' = checks + 1
  /\ UNCHANGED <<httpVars, alertVars, scheduleVars, now, targets, checkHistory,
                 baselines, monitorEvents, detections>>

\* runChecks after `await this.checkTarget(target)` has given the check at
\* time `at`: history, comparison with the baseline, events
StoreCheck(target, check, at) ==
  LET d == detectChanges(baselines, target.url, check)
  IN /\ now' = at
     /\ checkHistory' = addToHistory(checkHistory, target.url, check, at)
     /\ baselines' = d.baselines
     /\ monitorEvents' =
          monitorEvents
          \o [n \in 1..Len(d.changes) |->
                [name |-> "environment-change", data |-> d.changes[n]]]
          \o << [name |-> "health-check", data |-> check] >>
     /\ detections' = Append(detections,
          [url |-> target.url, current |-> check,
           before |-> BaselineOf(baselines, target.url),
           after |-> BaselineOf(d.baselines, target.url),
           changes |-> d.changes])

\* the check of the current target ends: runChecks stores it, compares it
\* with the baseline, emits the events and goes on to the next target
CheckTargetDone ==
  /\ cycle.pc = "checking"
  /\ \E execution \in Executions(targets[cycle.idx]) :
       LET target == targets[cycle.idx]
           responseTime == execution.responseTime
       IN StoreCheck(target, checkTarget(target, execution, responseTime),
                     now + responseTime)
  /\ IF cycle.idx < Len(targets)
     THEN /\ cycle' = [pc |-> "checking", idx |-> cycle.idx + 1]
          /\ checks' = checks + 1
     ELSE /\ cycle' = [pc |-> "idle", idx |-> 0]
          /\ UNCHANGED checks
  /\ UNCHANGED <<httpVars, alertVars, scheduleVars, targets>>

\* setBaseline(url) is called
SetBaseline ==
  /\ Cardinality({i \in 1..Len(monitorEvents) : monitorEvents[i].name = "baseline-set"})
       < MaxSetBaselines
  /\ \E i \in 1..Len(targets) :
       LET href == targets[i].url
       IN /\ href \in DOMAIN checkHistory
          /\ Len(checkHistory[href]) > 0
          /\ baselines' = [u \in DOMAIN baselines \cup {href} |->
                             IF u = href THEN Last(checkHistory[href]) ELSE baselines[u]]
          /\ monitorEvents' = Append(monitorEvents,
                                [name |-> "baseline-set", data |-> Last(checkHistory[href])])
  /\ UNCHANGED <<httpVars, alertVars, scheduleVars, now, targets, checkHistory, cycle,
                 detections, checks>>

InitMonitor ==
  /\ customerId = "hl_1a2b3c"
  /\ password = "s3cret"
  /\ InitHttp
  /\ autoEscalate
  /\ retries = DefaultRetries
  /\ AlertingConstructed(0, defaultAlertRules, {})
  /\ \E ts \in TargetLists : MonitorConstructed(ts, 0)
  /\ BrowserConstructed(0)

NextMonitor ==
  \/ RunChecks
  \/ CheckTargetDone
  \/ SetBaseline

SpecMonitor == InitMonitor /\ [][NextMonitor]_vars

\* the 'environment-change' events emitted for the check of a detection
EventsOf(d) ==
  {i \in 1..Len(monitorEvents) :
     /\ monitorEvents[i].name = "environment-change"
     /\ monitorEvents[i].data.url = d.url
     /\ monitorEvents[i].data.timestamp = d.current.timestamp}

\* C18: a check of a URL without stored baseline becomes the baseline of
\* the URL, yields no change record and no 'environment-change' event,
\* whatever the check contains.
C18_ColdStartSilent ==
  \A i \in 1..Len(detections) :
    detections[i].before = NoBaseline
    => /\ detections[i].changes = <<>>
       /\ detections[i].after = detections[i].current
       /\ EventsOf(detections[i]) = {}

C18_Witness ==
  \E i \in 1..Len(detections) :
    /\ i > 1
    /\ detections[i].before = NoBaseline
    /\ detections[i].current.responseTime = 1201
    /\ baselines[detections[i].url] = detections[i].current
    /\ \E j \in 1..Len(detections) :
         /\ detections[j].before = NoBaseline
         /\ CountIn(detections[j].current, ".product") = 0
         /\ detections[j].current.selectorMatches # <<>>

\* the check lists the selector in its selectorMatches
Lists(check, selector) ==
  \E k \in 1..Len(check.selectorMatches) : check.selectorMatches[k].selector = selector

SelectorNames == {".product", ".price"}

\* the 'structure' records of a detection that concern the selector
StructureRecords(d, selector) ==
  {n \in 1..Len(d.changes) :
     d.changes[n].changeType = "structure" /\ d.changes[n].selector = selector}

ExactlyOneStructureRecord(d, selector) ==
  /\ Cardinality(StructureRecords(d, selector)) = 1
  /\ \A n \in StructureRecords(d, selector) :
       /\ d.changes[n].before = CountIn(d.before, selector)
       /\ d.changes[n].after = 0

\* C19 as claimed: a selector with a positive count in the baseline and no
\* (zero) count in a later check of the URL yields exactly one 'structure'
\* record with before = baseline count and after = 0; a selector whose count
\* stays positive yields none.
C19_EveryVanishedSelectorRecorded ==
  \A i \in 1..Len(detections), selector \in SelectorNames :
    LET d == detections[i]
    IN (d.before # NoBaseline /\ CountIn(d.before, selector) > 0)
       => IF CountIn(d.current, selector) = 0
          THEN ExactlyOneStructureRecord(d, selector)
          ELSE StructureRecords(d, selector) = {}

\* C19 amended: a selector with a positive count in the baseline that the
\* later check lists with count 0 yields exactly one 'structure' record with
\* before = baseline count and after = 0; a selector whose count stays
\* positive, or that the later check does not list at all (a check that
\* failed has empty selectorMatches), yields none.
C19_ListedVanishedSelectorRecorded ==
  \A i \in 1..Len(detections), selector \in SelectorNames :
    LET d == detections[i]
    IN (d.before # NoBaseline /\ CountIn(d.before, selector) > 0)
       => IF Lists(d.current, selector) /\ CountIn(d.current, selector) = 0
          THEN ExactlyOneStructureRecord(d, selector)
          ELSE StructureRecords(d, selector) = {}

C19_Witness ==
  \E i, j, k \in 1..Len(detections) :
    /\ CountIn(detections[i].before, ".product") = 2
    /\ CountIn(detections[i].before, ".price") = 1
    /\ detections[i].current.selectorMatches =
         << [selector |-> ".product", count |-> 0], [selector |-> ".price", count |-> 0] >>
    /\ ExactlyOneStructureRecord(detections[i], ".product")
    /\ ExactlyOneStructureRecord(detections[i], ".price")
    /\ detections[i].changes[1].before = 2
    /\ CountIn(detections[j].before, ".product") = 2
    /\ CountIn(detections[j].current, ".product") = 1
    /\ StructureRecords(detections[j], ".product") = {}
    /\ detections[k].before # NoBaseline
    /\ CountIn(detections[k].before, ".product") > 0
    /\ detections[k].current.selectorMatches = <<>>
    /\ detections[k].changes = <<>>

\* the 'performance' records of a detection
PerformanceRecords(d) ==
  {n \in 1..Len(d.changes) : d.changes[n].changeType = "performance"}

\* C20: a later check yields a 'performance' record exactly when its
\* response time is more than double the baseline's, and then exactly one,
\* with before / after set to the baseline's and the check's response time.
C20_PerformanceRecordBeyondDouble ==
  \A i \in 1..Len(detections) :
    LET d == detections[i]
    IN d.before # NoBaseline
       => IF d.current.responseTime > 2 * d.before.responseTime
          THEN /\ Cardinality(PerformanceRecords(d)) = 1
               /\ \A n \in PerformanceRecords(d) :
                    /\ d.changes[n].before = d.before.responseTime
                    /\ d.changes[n].after = d.current.responseTime
          ELSE PerformanceRecords(d) = {}

C20_Witness ==
  \E i, j \in 1..Len(detections) :
    /\ detections[i].before # NoBaseline
    /\ detections[i].before.responseTime = 600
    /\ detections[i].current.responseTime = 1200
    /\ detections[i].changes = <<>>
    /\ detections[j].before # NoBaseline
    /\ detections[j].before.responseTime = 600
    /\ detections[j].current.responseTime = 1201
    /\ Cardinality(PerformanceRecords(detections[j])) = 1

\* ------------------------------------------- EnvironmentMonitor, start()
\* start(), stop() and the timer: runChecks() is called without await, so
\* several cycles can be under way
MaxOverlap == 2

MaxScheduledChecks == 2

CheckIntervals == {0, 1000}

Max(a, b) == IF a >= b THEN a ELSE b

\* the ways a target check ends that are followed here: those in 600 or 1201 ms
ScheduledExecutions(target) ==
  {e \in Executions(target) : e.responseTime \in {600, 1201}}

RECURSIVE ChecksAhead(_, _)
\* the target checks the cycles cs[i..] have still to begin
ChecksAhead(cs, i) ==
  IF i > Len(cs) THEN 0 ELSE (Len(targets) - cs[i].idx) + ChecksAhead(cs, i + 1)

\* one more cycle can be followed to its end
Room == /\ Len(cycles) < MaxOverlap
        /\ checks + ChecksAhead(cycles, 1) + Len(targets) <= MaxScheduledChecks

\* this.runChecks() without await: the call runs up to its first await
BeginCycle(cs) ==
  IF Len(targets) > 0 THEN Append(cs, [idx |-> 1, startTime |-> now]) ELSE cs

\* start()
MonitorStart ==
  /\ ~isRunning
  /\ Room
  /\ isRunning' = TRUE
  /\ monitorEvents' = Append(monitorEvents, [name |-> "started"])
  /\ cycles' = BeginCycle(cycles)
  /\ checks' = checks + 1
  /\ intervalId' = [set |-> TRUE, due |-> now + checkInterval]
  /\ UNCHANGED <<httpVars, alertVars, now, targets, checkHistory, baselines, cycle,
                 detections, checkInterval>>

\* stop()
MonitorStop ==
  /\ isRunning
  /\ intervalId' = NoInterval
  /\ isRunning' = FALSE
  /\ monitorEvents' = Append(monitorEvents, [name |-> "stopped"])
  /\ UNCHANGED <<httpVars, alertVars, now, targets, checkHistory, baselines, cycle,
                 detections, checks, checkInterval, cycles>>

\* the callback of setInterval runs, checkInterval ms after the last time
IntervalTick ==
  /\ intervalId.set
  /\ Room
  /\ now' = Max(now, intervalId.due)
  /\ intervalId' = [set |-> TRUE, due |-> Max(now, intervalId.due) + checkInterval]
  /\ cycles' = Append(cycles, [idx |-> 1, startTime |-> Max(now, intervalId.due)])
  /\ checks' = checks + 1
  /\ UNCHANGED <<httpVars, alertVars, targets, checkHistory, baselines, monitorEvents,
                 cycle, detections, isRunning, checkInterval>>

\* the target check one of the cycles awaits ends: that cycle stores it and
\* goes on to its next target
CycleCheckDone ==
  /\ \E c \in 1..Len(cycles) :
       LET target == targets[cycles[c].idx]
       IN /\ \E execution \in ScheduledExecutions(target) :
               LET responseTime == execution.responseTime
                   at == cycles[c].startTime + responseTime
               IN /\ at >= now
                  /\ (intervalId.set => at <= intervalId.due)
                  /\ StoreCheck(target,
                                [checkTarget(target, execution, responseTime)
                                   EXCEPT !.timestamp = at],
                                at)
                  /\ IF cycles[c].idx < Len(targets)
                     THEN /\ cycles' = [cycles EXCEPT ![c] =
                                          [idx |-> cycles[c].idx + 1, startTime |-> at]]
                          /\ checks' = checks + 1
                     ELSE /\ cycles' = [n \in 1..(Len(cycles) - 1) |->
                                          IF n < c THEN cycles[n] ELSE cycles[n + 1]]
                          /\ UNCHANGED checks
  /\ UNCHANGED <<httpVars, alertVars, targets, cycle, isRunning, checkInterval,
                 intervalId>>

InitSchedule ==
  /\ customerId = "hl_1a2b3c"
  /\ password = "s3cret"
  /\ InitHttp
  /\ autoEscalate
  /\ retries = DefaultRetries
  /\ AlertingConstructed(0, defaultAlertRules, {})
  /\ \E ts \in TargetLists, ci \in CheckIntervals : MonitorConstructed(ts, ci)
  /\ BrowserConstructed(0)

NextSchedule ==
  \/ MonitorStart
  \/ MonitorStop
  \/ IntervalTick
  \/ CycleCheckDone
  \/ SetBaseline

SpecSchedule == InitSchedule /\ [][NextSchedule]_vars

\* the step is setBaseline(href): it emits 'baseline-set' with the check
BaselineSet(href) ==
  /\ Len(monitorEvents') = Len(monitorEvents) + 1
  /\ Last(monitorEvents').name = "baseline-set"
  /\ Last(monitorEvents').data.url = href

KeptUnlessSet ==
  \A u \in DOMAIN baselines :
    /\ u \in DOMAIN baselines'
    /\ baselines'[u] # baselines[u]
       => /\ BaselineSet(u)
          /\ baselines'[u] = Last(checkHistory[u])

\* C21: once a URL has a baseline, a step changes it only if the step is
\* setBaseline of that URL, and then to the last check of the URL's history;
\* the checks of any cycle, with or without changes, leave it as it is.
C21_BaselineReplacedOnlyBySetBaseline == [][KeptUnlessSet]_vars

C21_Witness ==
  \E i \in 1..Len(detections) :
    /\ detections[i].before # NoBaseline
    /\ detections[i].changes # <<>>
    /\ detections[i].after = detections[i].before
    /\ \E e \in 1..Len(monitorEvents) :
         /\ monitorEvents[e].name = "baseline-set"
         /\ monitorEvents[e].data.url = detections[i].url
         /\ monitorEvents[e].data # detections[i].before
         /\ baselines[detections[i].url] = monitorEvents[e].data

\* C30: no second runChecks cycle is under way while a cycle of the
\* monitor awaits a target check.
C30_OneCycleAtATime == Len(cycles) <= 1

\* ------------------------------------------- EnvironmentAnalyzer, analyze
AnalyzedUrls == {"https://shop.example"}

ProbeErrors == {"timeout of 15000ms exceeded", "getaddrinfo ENOTFOUND"}

notAnalyzerVars ==
  <<autoEscalate, retries, escalationHistory, now, handlerVars, fetchVars, credVars,
    alertVars, monitorVars, runVars, poolVars, browserVars, mcpVars, geoVars>>

\* analyze(url) is called and awaits axios.get
Analyze ==
  /\ aPc # "probing"
  /\ \E href \in AnalyzedUrls : probe' = [type |-> "pending", url |-> href]
  /\ aPc' = "probing"
  /\ analysis' = [url |-> Null]
  /\ UNCHANGED notAnalyzerVars

\* axios.get resolves (validateStatus accepts every status): the headers and
\* the content are analysed and analyze returns
ProbeResolve ==
  /\ aPc = "probing"
  /\ \E headers \in ProbeHeaders, data \in ProbeData :
       /\ probe' = [type |-> "response", url |-> probe.url, headers |-> headers,
                    data |-> data]
       /\ analysis' = analyzed(probe.url, [headers |-> headers, data |-> data])
  /\ aPc' = "done"
  /\ UNCHANGED notAnalyzerVars

\* axios.get rejects: analyze returns from its catch block
ProbeReject ==
  /\ aPc = "probing"
  /\ \E message \in ProbeErrors :
       /\ probe' = [type |-> "error", url |-> probe.url, message |-> message]
       /\ analysis' = analysisFailed(probe.url, NewSignals, message)
  /\ aPc' = "done"
  /\ UNCHANGED notAnalyzerVars

InitAnalyze ==
  /\ customerId = "hl_1a2b3c"
  /\ password = "s3cret"
  /\ InitHttp
  /\ autoEscalate
  /\ retries = DefaultRetries
  /\ AlertingConstructed(0, defaultAlertRules, {})
  /\ MonitorConstructed(<<>>, 0)
  /\ BrowserConstructed(0)

NextAnalyze ==
  \/ Analyze
  \/ ProbeResolve
  \/ ProbeReject

SpecAnalyze == InitAnalyze /\ [][NextAnalyze]_vars

\* analyze has returned the analysis of a response
Analysed == aPc = "done" /\ probe.type = "response"

\* the body text of the probed response holds an antiBotPatterns entry, in
\* whatever case
BodyToken == PatternHit(toLowerCase(probe.data.text), antiBotPatterns)

\* the headers of the probed response hold one of the tokens the header
\* inspection looks for
HeaderToken == CloudflareHeaderHit(probe.headers) \/ ServiceHeaderHit(probe.headers)

\* C22 as stated: a response with a protection-service token in its body or
\* its headers is given the tier 'browser-advanced'.
C22_ProtectionTokenGivesHighestTier ==
  (Analysed /\ (BodyToken \/ HeaderToken))
  => analysis.recommendedExecution = "browser-advanced"

\* C22: a response with a protection-service token in its headers, or in a
\* body that reached analyze as a string, is given the tier
\* 'browser-advanced'; a body axios parsed into an object is not scanned.
C22_TokenInHeadersOrTextGivesHighestTier ==
  (Analysed /\ ((probe.data.isString /\ BodyToken) \/ HeaderToken))
  => analysis.recommendedExecution = "browser-advanced"

C22_Witness ==
  /\ Analysed
  /\ probe.data.isString
  /\ Includes(probe.data.text, "Cloudflare")
  /\ ~PatternHit(probe.data.text, antiBotPatterns)
  /\ ~HeaderToken
  /\ analysis.recommendedExecution = "browser-advanced"

\* C23: the recommended tier is decided by the three signals alone:
\* protection gives 'browser-advanced', else script-required or dynamic
\* content gives 'browser-light', else 'http'.
C23_TierDecidedBySignals ==
  Analysed
  => analysis.recommendedExecution =
       (IF analysis.signals.hasAntiBot THEN "browser-advanced"
        ELSE IF analysis.signals.requiresJavaScript \/ analysis.signals.hasDynamicContent
             THEN "browser-light"
        ELSE "http")

C23_Witness ==
  /\ Analysed
  /\ analysis.signals.requiresJavaScript
  /\ analysis.signals.hasDynamicContent
  /\ ~analysis.signals.hasAntiBot
  /\ analysis.recommendedExecution = "browser-light"

\* the sum of the increments of the heuristics that fired on the probed
\* response, in hundredths
FiredSum ==
  (IF CloudflareHeaderHit(probe.headers) THEN 20 ELSE 0)
  + (IF ServiceHeaderHit(probe.headers) THEN 30 ELSE 0)
  + (IF probe.data.isString
     THEN (IF PatternHit(toLowerCase(probe.data.text), jsFrameworkPatterns)
           THEN 15 ELSE 0)
          + (IF BodyToken THEN 20 ELSE 0)
          + (IF PatternHit(toLowerCase(probe.data.text), dynamicContentPatterns)
             THEN 10 ELSE 0)
          + (IF MinimalContentHit(probe.data.text) THEN 30 ELSE 0)
     ELSE 0)

\* C24 as stated: for a response with a protection-service token the
\* reported confidence is at least the sum of the increments that fired.
C24_ConfidenceAtLeastFiredSum ==
  (Analysed /\ analysis.signals.hasAntiBot) => analysis.confidence >= FiredSum

\* C24: for a response with a protection-service token the reported
\* confidence is the sum of the increments that fired, cut at 1: it is at
\* least the sum as long as the sum is at most 1, and 1 beyond that.
C24_ConfidenceIsFiredSumClamped ==
  (Analysed /\ analysis.signals.hasAntiBot)
  => /\ analysis.confidence = Clamp(FiredSum)
     /\ (FiredSum <= 100 => analysis.confidence >= FiredSum)

C24_Witness ==
  /\ Analysed
  /\ analysis.signals.hasAntiBot
  /\ FiredSum = 125
  /\ analysis.confidence = 100

\* C25: the confidence of the analysis and the confidence carried by its
\* signals both lie in 0..1.
C25_ConfidenceWithinUnitInterval ==
  aPc = "done"
  => /\ analysis.confidence \in 0..100
     /\ analysis.signals.confidence \in 0..100

\* C26: when the probe request fails, analyze resolves with the tier
\* 'browser-advanced', complexity 'high' and confidence 0.3.
C26_FailedProbeGivesHighestTier ==
  probe.type = "error"
  => /\ aPc = "done"
     /\ analysis.recommendedExecution = "browser-advanced"
     /\ analysis.complexity = "high"
     /\ analysis.confidence = 30

C26_Witness ==
  /\ aPc = "done"
  /\ probe.type = "error"
  /\ analysis.error = "timeout of 15000ms exceeded"
  /\ analysis.recommendedExecution = "browser-advanced"

\* ------------------------------------------- EscalationHandler, ordering
\* the executor invocations of the run that have not settled yet
InFlightInvocations == {i \in 1..Len(trace) : trace[i].state = "pending"}

\* C27: within one executeWithEscalation run at most one executor
\* invocation is in flight, it is the one begun last, and it is in flight
\* exactly while the run awaits it: every earlier tier has resolved or
\* rejected before the next one was begun.
C27_TiersStrictlySequential ==
  /\ Cardinality(InFlightInvocations) <= 1
  /\ \A i \in InFlightInvocations : i = Len(trace)
  /\ (InFlightInvocations # {}) <=> (hPc = "exec")

C27_Witness ==
  /\ Len(trace) = 3
  /\ trace[1].state = "resolved"
  /\ trace[2].state = "rejected"
  /\ trace[3].state = "pending"
  /\ trace[3].level = "browser-advanced"

\* ------------------------------------- EscalationHandler, concurrent runs
\* several executeWithEscalation calls on one handler, each for its own
\* target, with function executors for the three levels
RunUrls == <<"https://a.example", "https://b.example", "https://c.example">>

RunStartLevels == {Null, "browser-light"}

RunResults == {r \in FunctionResults : r.success # r.escalationNeeded}

RunErrors == { <<"Timeout">> }

notRunVars ==
  <<retries, handlerVars, fetchVars, credVars, alertVars, monitorVars, analyzerVars,
    poolVars, browserVars, mcpVars, geoVars>>

\* head of the while loop of a run with locals (level, count) and the
\* invocations tr made so far
RunIterate(run, level, count, tr) ==
  IF count < Len(Levels)
  THEN [run EXCEPT !.pc = "exec", !.level = level, !.count = count,
                   !.emitted = Append(@, [name |-> "execution-start", level |-> level]),
                   !.trace = Append(tr, [level |-> level, state |-> "pending",
                                         value |-> [type |-> "none"]])]
  ELSE [run EXCEPT !.pc = "done", !.level = level, !.count = count, !.trace = tr,
                   !.outcome = [type |-> "undefined"]]

\* variant of NextLevelOf that reads a cursor kept on the handler, which
\* holds the level of the call made last
NextLevelOf_sharedCursor(r) ==
  LET made == {q \in 1..MaxRuns : runs[q].pc # "unused"}
      latest == CHOOSE q \in made : \A o \in made : o <= q
  IN getNextLevel(runs[latest].level)

\* this.getNextLevel(currentLevel) in run r
NextLevelOf(r) == getNextLevel(runs[r].level)

\* executeWithEscalation(url, executors, options) is called once more
RunStart ==
  /\ \E r \in 1..MaxRuns, opt \in RunStartLevels :
       /\ runs[r].pc = "unused"
       /\ \A q \in 1..(r - 1) : runs[q].pc # "unused"
       /\ runs' = [runs EXCEPT ![r] =
            RunIterate([pc |-> "unused", url |-> RunUrls[r],
                        startLevel |-> StartLevelOf(opt), level |-> Null, count |-> 0,
                        trace |-> <<>>, emitted |-> <<>>, until |-> 0,
                        outcome |-> [type |-> "none"]],
                       StartLevelOf(opt), 0, <<>>)]
  /\ UNCHANGED <<notRunVars, autoEscalate, escalationHistory, now>>

\* the executor a run awaits resolves
RunExecResolve ==
  /\ \E r \in 1..MaxRuns, res \in RunResults :
       LET run == runs[r]
           nextLevel == NextLevelOf(r)
           settled == Settle(run.trace, "resolved",
                             [success |-> Truthy(res, "success"),
                              escalationNeeded |-> Truthy(res, "escalationNeeded")])
       IN /\ run.pc = "exec"
          /\ IF Truthy(res, "escalationNeeded") /\ autoEscalate /\ nextLevel # Null
             THEN /\ escalationHistory' = Append(escalationHistory,
                        [url |-> run.url, fromLevel |-> run.level,
                         reason |-> Get(res, "escalationReason"), timestamp |-> now])
                  /\ runs' = [runs EXCEPT ![r] =
                        [run EXCEPT !.pc = "delay", !.level = nextLevel,
                                    !.count = @ + 1, !.trace = settled,
                                    !.until = now + EscalationDelay,
                                    !.emitted = Append(@,
                                       [name |-> "escalation", fromLevel |-> run.level,
                                        toLevel |-> nextLevel,
                                        reason |-> Get(res, "escalationReason")])]]
             ELSE /\ runs' = [runs EXCEPT ![r] =
                        [run EXCEPT !.pc = "done", !.trace = settled,
                                    !.outcome = [type |-> "returned",
                                       value |-> FinalResult(res, run.level, run.count)]]]
                  /\ UNCHANGED escalationHistory
  /\ UNCHANGED <<notRunVars, autoEscalate, now>>

\* the executor a run awaits rejects
RunExecReject ==
  /\ \E r \in 1..MaxRuns, error \in RunErrors :
       LET run == runs[r]
           nextLevel == NextLevelOf(r)
           settled == Settle(run.trace, "rejected", error)
       IN /\ run.pc = "exec"
          /\ runs' = [runs EXCEPT ![r] =
               IF nextLevel # Null /\ autoEscalate
               THEN RunIterate(run, nextLevel, run.count + 1, settled)
               ELSE [run EXCEPT !.pc = "done", !.trace = settled,
                                !.outcome = [type |-> "threw", error |-> error]]]
  /\ UNCHANGED <<notRunVars, autoEscalate, escalationHistory, now>>

\* the escalation delay of a run elapses and its loop continues
RunDelayDone ==
  /\ \E r \in 1..MaxRuns :
       /\ runs[r].pc = "delay"
       /\ now' = Max(now, runs[r].until)
       /\ runs' = [runs EXCEPT ![r] =
            RunIterate(runs[r], runs[r].level, runs[r].count, runs[r].trace)]
  /\ UNCHANGED <<notRunVars, autoEscalate, escalationHistory>>

InitRuns ==
  /\ customerId = "hl_1a2b3c"
  /\ password = "s3cret"
  /\ InitHttp
  /\ retries = DefaultRetries
  /\ AlertingConstructed(0, defaultAlertRules, {})
  /\ MonitorConstructed(<<>>, 0)
  /\ BrowserConstructed(0)

NextRuns ==
  \/ RunStart
  \/ RunExecResolve
  \/ RunExecReject
  \/ RunDelayDone

SpecRuns == InitRuns /\ [][NextRuns]_vars

\* the settled invocation makes its own run go on to the next level
Escalates(e) ==
  /\ autoEscalate
  /\ getNextLevel(e.level) # Null
  /\ \/ e.state = "rejected"
     \/ e.state = "resolved" /\ e.value.escalationNeeded

\* the levels a run went through and what it returned follow from its start
\* level and the results of its own invocations
FollowsOwnResults(run) ==
  LET t == run.trace
  IN /\ Len(t) >= 1
     /\ t[1].level = run.startLevel
     /\ \A i \in 2..Len(t) :
          /\ Escalates(t[i - 1])
          /\ t[i].level = getNextLevel(t[i - 1].level)
     /\ run.pc \in {"exec", "done"} => run.level = Last(t).level /\ run.count = Len(t) - 1
     /\ run.pc = "delay" => /\ Escalates(Last(t))
                            /\ run.level = getNextLevel(Last(t).level)
                            /\ run.count = Len(t)
     /\ run.pc = "done" => ~Escalates(Last(t))
     /\ run.outcome.type = "returned"
          => /\ run.outcome.value.executionLevel = Last(t).level
             /\ run.outcome.value.escalationCount = Len(t) - 1

\* C28: under every interleaving of the calls under way on one handler,
\* the tier sequence of each run and its returned executionLevel and
\* escalationCount follow from that run's own executor results alone.
C28_RunsIndependent ==
  \A r \in 1..MaxRuns : runs[r].pc # "unused" => FollowsOwnResults(runs[r])

C28_Witness ==
  /\ runs[1].pc = "done"
  /\ runs[2].pc = "done"
  /\ runs[1].outcome.type = "returned"
  /\ runs[1].outcome.value.executionLevel = "browser-advanced"
  /\ runs[1].outcome.value.escalationCount = 2
  /\ runs[2].outcome.type = "returned"
  /\ runs[2].outcome.value.executionLevel = "browser-light"
  /\ runs[2].outcome.value.escalationCount = 1
  /\ [i \in 1..Len(escalationHistory) |-> escalationHistory[i].url]
       = <<"https://a.example", "https://b.example", "https://a.example">>

\* ------------------------------------- fetchMany / executeMany: the pool
MaxConcurrency == 2

DefaultFetchConcurrency == 5

DefaultExecuteConcurrency == 3

PoolUrls == SeqsUpTo({"https://a.example", "https://b.example", ""}, MaxUrls)

\* the calls: the method and its concurrency argument (the default when the
\* caller gives none)
PoolCalls ==
  {[method |-> "fetchMany", concurrency |-> c] :
     c \in (0..MaxConcurrency) \cup {DefaultFetchConcurrency}}
  \cup {[method |-> "executeMany", concurrency |-> c] :
          c \in (0..MaxConcurrency) \cup {DefaultExecuteConcurrency}}

Min(a, b) == IF a <= b THEN a ELSE b

\* variant of WorkerCount with one worker per url
WorkerCount_perUrl(concurrency, n) == n

\* Math.min(concurrency, urls.length)
WorkerCount(concurrency, n) == Min(concurrency, n)

RECURSIVE WorkerLoop(_, _, _, _)
\* worker w runs its loop `while (queue.length > 0)` until it awaits the
\* fetch of a url or finds the queue empty; n is urls.length
WorkerLoop(w, queue, taken, n) ==
  IF queue = <<>>
  THEN [worker |-> [pc |-> "done"], queue |-> queue, taken |-> taken]
  ELSE LET href == Head(queue)
           shifted == Append(taken, [worker |-> w, position |-> n - Len(queue) + 1])
       IN IF href # ""
          THEN [worker |-> [pc |-> "fetching", url |-> href], queue |-> Tail(queue),
                taken |-> shifted]
          ELSE WorkerLoop(w, Tail(queue), shifted, n)

RECURSIVE StartWorkers(_, _, _, _, _, _)
\* .map(() => worker()): the workers w..count are called one after the other
StartWorkers(w, count, workers, queue, taken, n) ==
  IF w > count
  THEN [workers |-> workers, queue |-> queue, taken |-> taken]
  ELSE LET step == WorkerLoop(w, queue, taken, n)
       IN StartWorkers(w + 1, count, Append(workers, step.worker), step.queue,
                       step.taken, n)

notPoolVars ==
  <<autoEscalate, retries, escalationHistory, now, handlerVars, fetchVars, credVars,
    alertVars, monitorVars, analyzerVars, runVars, browserVars, mcpVars, geoVars>>

\* fetchMany(urls, options, concurrency) or executeMany(...) is called: the
\* workers are started and the call awaits Promise.all
CallMany ==
  /\ pPc = "idle"
  /\ \E urls \in PoolUrls, call \in PoolCalls :
       LET started == StartWorkers(1, WorkerCount(call.concurrency, Len(urls)), <<>>,
                                   urls, <<>>, Len(urls))
       IN /\ pCall' = [method |-> call.method, urls |-> urls,
                       concurrency |-> call.concurrency]
          /\ pWorkers' = started.workers
          /\ pQueue' = started.queue
          /\ pTaken' = started.taken
  /\ pResults' = <<>>
  /\ pPc' = "running"
  /\ UNCHANGED notPoolVars

\* the fetch (or execute) a worker awaits resolves: the result is pushed and
\* the worker goes on with its loop
WorkerFetchDone ==
  /\ pPc = "running"
  /\ \E w \in 1..Len(pWorkers), success \in BOOLEAN :
       LET step == WorkerLoop(w, pQueue, pTaken, Len(pCall.urls))
       IN /\ pWorkers[w].pc = "fetching"
          /\ pResults' = Append(pResults, [url |-> pWorkers[w].url, success |-> success])
          /\ pWorkers' = [pWorkers EXCEPT ![w] = step.worker]
          /\ pQueue' = step.queue
          /\ pTaken' = step.taken
  /\ UNCHANGED <<notPoolVars, pPc, pCall>>

\* every worker has ended: Promise.all resolves and the call returns results
ManyReturn ==
  /\ pPc = "running"
  /\ \A w \in 1..Len(pWorkers) : pWorkers[w].pc = "done"
  /\ pPc' = "returned"
  /\ UNCHANGED <<notPoolVars, pCall, pQueue, pResults, pWorkers, pTaken>>

InitPool ==
  /\ customerId = "hl_1a2b3c"
  /\ password = "s3cret"
  /\ InitHttp
  /\ autoEscalate
  /\ retries = DefaultRetries
  /\ AlertingConstructed(0, defaultAlertRules, {})
  /\ MonitorConstructed(<<>>, 0)
  /\ BrowserConstructed(0)

NextPool ==
  \/ CallMany
  \/ WorkerFetchDone
  \/ ManyReturn

SpecPool == InitPool /\ [][NextPool]_vars

\* the executions in flight
Fetching == {w \in 1..Len(pWorkers) : pWorkers[w].pc = "fetching"}

\* how often the url occurs in the list of urls / of results
Occurrences(seq, href) == Cardinality({i \in 1..Len(seq) : seq[i] = href})

ResultUrls == [i \in 1..Len(pResults) |-> pResults[i].url]

PoolBounded ==
  Cardinality(Fetching) <= Min(pCall.concurrency, Len(pCall.urls))

\* no queue entry is shifted twice, and at the return every entry was shifted
TakenOnce ==
  /\ \A i, j \in 1..Len(pTaken) : pTaken[i].position = pTaken[j].position => i = j
  /\ pPc = "returned"
       => {pTaken[i].position : i \in 1..Len(pTaken)} = 1..Len(pCall.urls)

\* C29 as stated: never more than min(c, number of urls) executions in
\* flight, every queued url shifted by exactly one worker, and the call
\* returns after all urls are processed with one result per url.
C29_PoolProcessesEveryUrl ==
  /\ PoolBounded
  /\ TakenOnce
  /\ pPc = "returned"
       => /\ pQueue = <<>>
          /\ Len(pResults) = Len(pCall.urls)
          /\ \A i \in 1..Len(pCall.urls) :
               Occurrences(ResultUrls, pCall.urls[i])
                 = Occurrences(pCall.urls, pCall.urls[i])

\* C29: never more than min(c, number of urls) executions are in flight and
\* no queue entry is shifted twice.  With c >= 1 the call returns only after
\* every entry was shifted by exactly one worker and every execution has
\* ended, with one result per non-empty url, in any order; an empty url is
\* shifted and skipped without result.  With c = 0 no worker is started and
\* the call returns at once with no result.
C29_PoolProcessesEveryNonEmptyUrl ==
  /\ PoolBounded
  /\ \A i, j \in 1..Len(pTaken) : pTaken[i].position = pTaken[j].position => i = j
  /\ (pPc = "returned" /\ pCall.concurrency >= 1)
       => /\ pQueue = <<>>
          /\ Fetching = {}
          /\ {pTaken[i].position : i \in 1..Len(pTaken)} = 1..Len(pCall.urls)
          /\ Occurrences(ResultUrls, "") = 0
          /\ Len(pResults) = Len(pCall.urls) - Occurrences(pCall.urls, "")
          /\ \A i \in 1..Len(pCall.urls) :
               pCall.urls[i] # ""
               => Occurrences(ResultUrls, pCall.urls[i])
                    = Occurrences(pCall.urls, pCall.urls[i])
  /\ (pPc = "returned" /\ pCall.concurrency = 0)
       => pResults = <<>> /\ pTaken = <<>>

C29_Witness ==
  /\ pPc = "returned"
  /\ pCall.concurrency = 2
  /\ pCall.urls = <<"https://a.example", "https://b.example", "https://a.example">>
  /\ ResultUrls = <<"https://b.example", "https://a.example", "https://a.example">>
  /\ {pTaken[i].worker : i \in 1..Len(pTaken)} = {1, 2}

\* ------------------------------------------------- EscalationHandler, the returned value
\* C31: a call that does not throw resolves to a result object carrying
\* executionLevel and escalationCount, never to undefined, whichever executors
\* are supplied and whichever level the run starts at.
C31_NeverResolvesToUndefined ==
  hPc = "done"
  => \/ outcome.type = "threw"
     \/ /\ outcome.type = "returned"
        /\ {"executionLevel", "escalationCount"} \subseteq DOMAIN outcome.value

ConfiguredLevels == {Levels[i] : i \in 1..Len(Levels)}

\* the tier advances of the run so far: every invocation after the first
\* follows one advance
Advances == Len(trace) - 1

\* C32: for a start level among the configured levels, the escalationCount of
\* the returned result is the number of tier advances of the run, which is
\* the distance in the level order from the start level to the level of the
\* result, and so at most len(levels) - 1.
C32_CountIsTierDistance ==
  (hPc = "done" /\ outcome.type = "returned" /\ startLevel \in ConfiguredLevels)
  => /\ outcome.value.escalationCount = Advances
     /\ outcome.value.escalationCount =
          Rank(outcome.value.executionLevel) - Rank(startLevel)
     /\ outcome.value.escalationCount <= Len(Levels) - 1

C32_Witness ==
  /\ hPc = "done"
  /\ outcome.type = "returned"
  /\ startLevel = "http"
  /\ outcome.value.executionLevel = TopLevel
  /\ outcome.value.escalationCount = 2
  /\ trace[1].state = "rejected"
  /\ trace[2].state = "resolved"

\* C33: with autoEscalate = false and an executor supplied for the start
\* level, that executor is the only one invoked and it is invoked once; its
\* result is returned with the start level and escalationCount 0 even when
\* it signals escalationNeeded, its error is rethrown, no 'escalation' event
\* is emitted and escalationHistory stays as it was.
C33_NoEscalationWhenDisabled ==
  (~autoEscalate /\ hPc # "idle" /\ executors[startLevel] # "absent")
  => /\ Len(trace) = 1
     /\ trace[1].level = startLevel
     /\ EscalationEvents = <<>>
     /\ escalationHistory = <<>>
     /\ escalationCount = 0
     /\ hPc \in {"exec", "done"}
     /\ hPc = "done" <=> trace[1].state # "pending"
     /\ trace[1].state = "resolved"
        => /\ outcome.type = "returned"
           /\ outcome.value.executionLevel = startLevel
           /\ outcome.value.escalationCount = 0
           /\ Truthy(outcome.value, "escalationNeeded") = trace[1].value.escalationNeeded
           /\ Truthy(outcome.value, "success") = trace[1].value.success
           /\ executors[startLevel] = "fetch"
              => outcome.value = FinalResult(fResult.value, startLevel, 0)
     /\ trace[1].state = "rejected"
        => outcome = [type |-> "threw", error |-> trace[1].value]

C33_Witness ==
  /\ ~autoEscalate
  /\ hPc = "done"
  /\ startLevel = "http"
  /\ executors["browser-light"] # "absent"
  /\ outcome.type = "returned"
  /\ Truthy(outcome.value, "escalationNeeded")

C33_WitnessRethrown ==
  /\ ~autoEscalate
  /\ hPc = "done"
  /\ startLevel = "http"
  /\ executors["browser-light"] # "absent"
  /\ outcome.type = "threw"
  /\ shouldEscalate(outcome.error)

\* ------------------------------------------------- BrowserExecutor, execute
notBrowserVars ==
  <<autoEscalate, retries, escalationHistory, now, handlerVars, fetchVars, credVars,
    alertVars, monitorVars, analyzerVars, runVars, poolVars, mcpVars, geoVars>>

ExecsInFlight == {e \in 1..MaxExecs : execs[e].pc \notin {"unused", "done"}}

\* execute(url, {geo}) is called, by the user or by a worker of executeMany,
\* whatever other execute calls are under way: antiBotEvents is reset, and
\* connect is awaited unless this.browser is set
CallExecute(slots) ==
  /\ \E e \in slots, geo \in Geos :
       /\ execs[e].pc = "unused"
       /\ \A d \in 1..(e - 1) : execs[d].pc # "unused"
       /\ execs' = [execs EXCEPT ![e] = NewExec(RunUrls[e], geo)]
  /\ antiBotEvents' = <<>>
  /\ UNCHANGED <<notBrowserVars, antiBotRetries, browser, connections>>

\* puppeteer.connect resolves: this.browser is assigned and the page is
\* opened on it
ConnectResolve ==
  /\ \E e \in 1..MaxExecs :
       /\ execs[e].pc = "connecting"
       /\ connections' = Append(connections,
                                [endpoint |-> buildBrightDataEndpoint(execs[e].geo),
                                 open |-> TRUE])
       /\ browser' = Len(connections) + 1
       /\ execs' = [execs EXCEPT ![e].pc = "goto", ![e].conn = Len(connections) + 1]
  /\ UNCHANGED <<notBrowserVars, antiBotRetries, antiBotEvents>>

\* puppeteer.connect rejects: the catch block of execute
ConnectReject ==
  /\ \E e \in 1..MaxExecs, error \in ConnectErrors :
       /\ execs[e].pc = "connecting"
       /\ execs' = [execs EXCEPT ![e] = Failed(execs[e], error, antiBotEvents)]
  /\ UNCHANGED <<notBrowserVars, antiBotRetries, browser, connections, antiBotEvents>>

\* page.goto resolves and detectChallenge has read the page
GotoResolve ==
  /\ \E e \in 1..MaxExecs, res \in {NoResponse} \cup NavigationStatuses,
        content \in PageContents :
       LET challenge == detectChallenge(content, <<execs[e].url>>)
           ex == [execs[e] EXCEPT !.response = res, !.got = execs[e].got \cup {Obtained(res)}]
       IN /\ execs[e].pc = "goto"
          /\ IF challenge # Null
             THEN /\ antiBotEvents' = Append(antiBotEvents,
                                        [type |-> challenge, resolved |-> FALSE,
                                         by |-> e])
                  /\ execs' = [execs EXCEPT ![e] =
                                 [ex EXCEPT !.pc = "resolving", !.challenge = challenge,
                                            !.met = Append(ex.met, challenge)]]
             ELSE /\ execs' = [execs EXCEPT ![e] = AfterAttempt(ex, antiBotEvents)]
                  /\ UNCHANGED antiBotEvents
  /\ UNCHANGED <<notBrowserVars, antiBotRetries, browser, connections>>

\* waitForChallengeResolution resolves: the last event of antiBotEvents is
\* marked, and the page is reloaded or the attempt fails
ChallengeWaitDone ==
  /\ \E e \in 1..MaxExecs, resolved \in BOOLEAN :
       /\ execs[e].pc = "resolving"
       /\ IF antiBotEvents = <<>>
          THEN /\ execs' = [execs EXCEPT ![e] =
                              Caught(execs[e], ResolvedOfUndefined, antiBotEvents)]
               /\ UNCHANGED antiBotEvents
          ELSE LET events == [antiBotEvents EXCEPT ![Len(antiBotEvents)].resolved =
                                                     resolved]
               IN /\ antiBotEvents' = events
                  /\ execs' = [execs EXCEPT ![e] =
                        IF resolved THEN [execs[e] EXCEPT !.pc = "reload"]
                        ELSE Caught(execs[e], NotResolvedError(execs[e].challenge),
                                    events)]
  /\ UNCHANGED <<notBrowserVars, antiBotRetries, browser, connections>>

\* page.reload resolves
ReloadResolve ==
  /\ \E e \in 1..MaxExecs, res \in {NoResponse} \cup NavigationStatuses :
       /\ execs[e].pc = "reload"
       /\ execs' = [execs EXCEPT ![e] =
             AfterAttempt([execs[e] EXCEPT !.response = res,
                                           !.got = execs[e].got \cup {Obtained(res)}],
                          antiBotEvents)]
  /\ UNCHANGED <<notBrowserVars, antiBotRetries, browser, connections, antiBotEvents>>

\* page.goto or page.reload rejects
NavigationReject ==
  /\ \E e \in 1..MaxExecs, error \in NavigationErrors :
       /\ execs[e].pc \in {"goto", "reload"}
       /\ execs' = [execs EXCEPT ![e] = Caught(execs[e], error, antiBotEvents)]
  /\ UNCHANGED <<notBrowserVars, antiBotRetries, browser, connections, antiBotEvents>>

\* the delay before the next attempt elapses
RetryDelayDone ==
  /\ \E e \in 1..MaxExecs :
       /\ execs[e].pc = "delay"
       /\ execs' = [execs EXCEPT ![e] = NextAttempt(execs[e], antiBotEvents)]
  /\ UNCHANGED <<notBrowserVars, antiBotRetries, browser, connections, antiBotEvents>>

\* page.content() and what follows it settle: the result is built
ContentDone ==
  /\ \E e \in 1..MaxExecs :
       /\ execs[e].pc = "content"
       /\ \/ execs' = [execs EXCEPT ![e] = Succeeded(execs[e], antiBotEvents)]
          \/ \E error \in PageErrors :
               execs' = [execs EXCEPT ![e] = Failed(execs[e], error, antiBotEvents)]
  /\ UNCHANGED <<notBrowserVars, antiBotRetries, browser, connections, antiBotEvents>>

\* disconnect(), awaited by its caller between executions, as executeMultiGeo
\* does before each execute
Disconnect ==
  /\ ExecsInFlight = {}
  /\ browser # NoBrowser
  /\ connections' = [connections EXCEPT ![browser].open = FALSE]
  /\ browser' = NoBrowser
  /\ UNCHANGED <<notBrowserVars, antiBotRetries, antiBotEvents, execs>>

\* concurrent execute calls on an executor constructed with antiBotRetries: 1,
\* whose navigation makes one attempt and awaits no retry delay
InitBrowser ==
  /\ customerId = "hl_1a2b3c"
  /\ password = "s3cret"
  /\ InitHttp
  /\ autoEscalate
  /\ retries = DefaultRetries
  /\ AlertingConstructed(0, defaultAlertRules, {})
  /\ MonitorConstructed(<<>>, 0)
  /\ BrowserConstructed(1)

NextBrowser ==
  \/ CallExecute(1..MaxExecs)
  \/ ConnectResolve
  \/ ConnectReject
  \/ GotoResolve
  \/ ChallengeWaitDone
  \/ ReloadResolve
  \/ NavigationReject
  \/ ContentDone
  \/ Disconnect

SpecBrowser == InitBrowser /\ [][NextBrowser]_vars

\* one execute call on an executor of any configured antiBotRetries
InitNavigate ==
  /\ customerId = "hl_1a2b3c"
  /\ password = "s3cret"
  /\ InitHttp
  /\ autoEscalate
  /\ retries = DefaultRetries
  /\ AlertingConstructed(0, defaultAlertRules, {})
  /\ MonitorConstructed(<<>>, 0)
  /\ \E c \in 0..MaxAntiBotRetries : BrowserConstructed(c)

NextNavigate ==
  \/ CallExecute({1})
  \/ ConnectResolve
  \/ ConnectReject
  \/ GotoResolve
  \/ ChallengeWaitDone
  \/ ReloadResolve
  \/ NavigationReject
  \/ RetryDelayDone
  \/ ContentDone
  \/ Disconnect

SpecNavigate == InitNavigate /\ [][NextNavigate]_vars

\* ------------------------------------------------- BrowserExecutor, properties
OpenConnections == {c \in 1..Len(connections) : connections[c].open}

\* C34: the executor holds at most one open browser connection: every
\* connection that was established and not closed is the one this.browser
\* holds, under every interleaving of concurrent execute calls.
C34_AtMostOneOpenConnection == OpenConnections \subseteq {browser}

EventTypes(events) == [k \in 1..Len(events) |-> events[k].type]

\* C35: the antiBotEvents of the result of an execute call are the challenges
\* that call came across while navigating, in order, and no others, under
\* every interleaving of concurrent execute calls on the executor.
C35_ResultListsOwnChallenges ==
  \A e \in 1..MaxExecs :
    execs[e].pc = "done"
    => /\ \A k \in 1..Len(execs[e].result.antiBotEvents) :
            execs[e].result.antiBotEvents[k].by = e
       /\ EventTypes(execs[e].result.antiBotEvents) = execs[e].met

\* C36: the connection an execute call opens its page on was established
\* with the endpoint built for the geo of that call.
C36_ConnectionOfRequestedGeo ==
  \A e \in 1..MaxExecs :
    (execs[e].pc # "unused" /\ execs[e].conn # NoBrowser)
    => connections[execs[e].conn].endpoint = buildBrightDataEndpoint(execs[e].geo)

\* C37: a result with success = true comes from a navigation in which some
\* attempt obtained a response of status below 400, and carries such a status.
C37_SuccessOnlyBelow400 ==
  \A e \in 1..MaxExecs :
    (execs[e].pc = "done" /\ execs[e].result.success)
    => /\ execs[e].result.statusCode < 400
       /\ \E g \in execs[e].got :
            g.outcome = "response" /\ g.status # NoResponse /\ g.status < 400

\* ------------------------------------------- EnvironmentMonitor, stop()
MonitoringEvents(events) ==
  SelectSeq(events, LAMBDA e : e.name \in {"health-check", "environment-change"})

\* a step taken while the monitor is stopped: stop() has returned, or start()
\* was never called, and the step is not a call of start()
StoppedStep == ~isRunning /\ ~isRunning'

\* C38: while the monitor is stopped no target check begins and no
\* 'health-check' or 'environment-change' event is emitted, also when a
\* cycle was awaiting a check at the time of stop().
C38_NoMonitoringWhileStopped ==
  [][StoppedStep
     => /\ checks' = checks
        /\ MonitoringEvents(monitorEvents') = MonitoringEvents(monitorEvents)]_vars

\* ------------------------------------------------- MCPClient, tools
notMcpVars ==
  <<autoEscalate, retries, escalationHistory, now, handlerVars, fetchVars, credVars,
    alertVars, monitorVars, analyzerVars, runVars, poolVars, browserVars, geoVars>>

\* webSearch / webScrape / webNavigate is called on a client, whatever other
\* calls are under way: the call runs up to its first timer, or throws
CallTool ==
  /\ \E t \in 1..MaxToolCalls, c \in Clients, input \in ToolInputs :
       /\ toolCalls[t].pc = "unused"
       /\ \A d \in 1..(t - 1) : toolCalls[d].pc # "unused"
       /\ toolCalls' = [toolCalls EXCEPT ![t] =
            [pc |-> IF ThrowsAtOnce(c, input) THEN "threw" ELSE "executing",
             client |-> c, tool |-> input.tool, options |-> input.options,
             level |-> IF input.tool = "web_scrape" /\ ~ThrowsAtOnce(c, input)
                       THEN ScrapeLevel(c, input.options) ELSE Null]]
  /\ UNCHANGED <<notMcpVars, clients>>

\* the simulated execution of the call resolves: the cost is computed and
\* the call recorded, or reading the missing options throws
ToolExecuted ==
  /\ \E t \in 1..MaxToolCalls :
       /\ toolCalls[t].pc = "executing"
       /\ IF ThrowsLater(toolCalls[t])
          THEN /\ toolCalls' = [toolCalls EXCEPT ![t].pc = "threw"]
               /\ UNCHANGED clients
          ELSE LET call == [tool |-> toolCalls[t].tool,
                            input |-> toolCalls[t].options,
                            cost |-> CostOf(toolCalls[t])]
               IN /\ clients' = [clients EXCEPT ![toolCalls[t].client] =
                                   recordCall(clients[toolCalls[t].client], call)]
                  /\ toolCalls' = [toolCalls EXCEPT ![t].pc = "returned"]
  /\ UNCHANGED notMcpVars

\* reset() on a client
Reset ==
  /\ \E c \in Clients : clients' = [clients EXCEPT ![c] = reset(clients[c])]
  /\ UNCHANGED <<notMcpVars, toolCalls>>

InitMcp ==
  /\ customerId = "hl_1a2b3c"
  /\ password = "s3cret"
  /\ InitHttp
  /\ autoEscalate
  /\ retries = DefaultRetries
  /\ AlertingConstructed(0, defaultAlertRules, {})
  /\ MonitorConstructed(<<>>, 0)
  /\ BrowserConstructed(0)

NextMcp ==
  \/ CallTool
  \/ ToolExecuted
  \/ Reset

SpecMcp == InitMcp /\ [][NextMcp]_vars

RECURSIVE SumOfCosts(_)
SumOfCosts(history) ==
  IF history = <<>> THEN 0 ELSE Head(history).cost + SumOfCosts(Tail(history))

CostConsistent(c) == clients[c].totalCost = SumOfCosts(clients[c].callHistory)

\* the step ends tool call t with an exception
Throws(t) == toolCalls[t].pc # "threw" /\ toolCalls'[t].pc = "threw"

\* the step records a returning tool call in the history of client c
Records(c) ==
  \E t \in 1..MaxToolCalls :
    /\ toolCalls[t].pc = "executing"
    /\ toolCalls'[t].pc = "returned"
    /\ toolCalls[t].client = c
    /\ Len(clients'[c].callHistory) = Len(clients[c].callHistory) + 1
    /\ SubSeq(clients'[c].callHistory, 1, Len(clients[c].callHistory))
         = clients[c].callHistory
    /\ Last(clients'[c].callHistory).tool = toolCalls[t].tool
    /\ clients'[c].totalCost = clients[c].totalCost + Last(clients'[c].callHistory).cost

\* the step is reset() on client c
Resets(c) ==
  /\ toolCalls' = toolCalls
  /\ clients'[c].callHistory = <<>>
  /\ clients'[c].totalCost = 0

CostStep ==
  /\ \A c \in Clients : CostConsistent(c)'
  /\ (\E t \in 1..MaxToolCalls : Throws(t)) => clients' = clients
  /\ \A c \in Clients :
       clients'[c] # clients[c]
       => /\ Records(c) \/ Resets(c)
          /\ \A d \in Clients \ {c} : clients'[d] = clients[d]

notGeoVars ==
  <<autoEscalate, retries, escalationHistory, now, handlerVars, fetchVars, credVars,
    alertVars, monitorVars, analyzerVars, runVars, poolVars, browserVars, mcpVars>>

\* validate(result, expectedGeo) is called; the validator keeps no state
\* between calls, so one call is followed
Validate ==
  /\ ~validation.called
  /\ \E finalUrl \in FinalUrls, html \in GeoHtmls, expectedGeo \in ExpectedGeos :
       LET result == [finalUrl |-> finalUrl, html |-> html]
       IN validation' = [called |-> TRUE, result |-> result,
                         expectedGeo |-> expectedGeo,
                         value |-> validate(result, expectedGeo)]
  /\ UNCHANGED notGeoVars

InitGeo ==
  /\ customerId = "hl_1a2b3c"
  /\ password = "s3cret"
  /\ InitHttp
  /\ autoEscalate
  /\ retries = DefaultRetries
  /\ AlertingConstructed(0, defaultAlertRules, {})
  /\ MonitorConstructed(<<>>, 0)
  /\ BrowserConstructed(0)

NextGeo == Validate

SpecGeo == InitGeo /\ [][NextGeo]_vars

\* the geographies the indicators of the validated result suggest
SuggestedGeos ==
  {validation.value.indicators[k].suggestedGeo :
     k \in 1..Len(validation.value.indicators)}

\* geo has the highest summed confidence among the suggested geographies
HighestScore(geo) ==
  /\ geo \in SuggestedGeos
  /\ \A g \in SuggestedGeos :
       ScoreOf(validation.value.indicators, g) <= ScoreOf(validation.value.indicators, geo)

\* determineGeo gives a geography of highest summed confidence, and null
\* when there is no indicator
DetectedIsHighestScore ==
  validation.called
  => IF SuggestedGeos = {} THEN validation.value.detectedGeo = Null
     ELSE HighestScore(validation.value.detectedGeo)

\* C40: the detected geography is one of highest summed confidence, or null
\* when there is no indicator; the validation is not valid, with one mismatch
\* warning, whenever a geography is detected that differs from the expected
\* one, and valid otherwise.
C40_MismatchReportedInvalid ==
  validation.called
  => LET v == validation.value
         mismatch == /\ v.detectedGeo # Null
                     /\ v.detectedGeo # LowerToken(validation.expectedGeo)
     IN /\ DetectedIsHighestScore
        /\ v.valid = ~mismatch
        /\ Len(v.warnings) = (IF mismatch THEN 1 ELSE 0)

====
